---------------------------- MODULE Spec2Model ----------------------------
(***************************************************************************)
(* Model of rust_http_proxy's request dispatcher (ProxyHandler::handle),   *)
(* its host resolver, request rewriter, serving gate and tunnel/simple     *)
(* proxy entry points (src/rust_http_proxy/src/proxy.rs), over the         *)
(* configuration built in src/rust_http_proxy/src/config.rs.               *)
(*                                                                         *)
(* Text that the code parses or formats (Host header values, paths, host   *)
(* names) is a sequence of one-character strings, so that split, prefix    *)
(* tests, number parsing and formatting are computed as the code computes  *)
(* them.  An Option<T> is a sequence of length 0 (None) or 1 (Some).       *)
(***************************************************************************)
EXTENDS Integers, Sequences, FiniteSets, TLC

VARIABLES
    cfg,                 \* crate::CONFIG (read-only after startup)
    local_ip,            \* the LOCAL_IP static
    req,                 \* Option: the request of the latest call of handle
    client_socket_addr,  \* the client address of that call
    outcome,             \* what that call of handle returned
    calls,               \* how often the call invoked each collaborator
    matched,             \* Option: the LocationRule the call selected
    sent,                \* Option: the request simple_proxy sent upstream
    access_label,        \* Option: the AccessLabel the call built
    replied,             \* Option: what the collaborator the call awaited returned
    spawned,             \* the tunnel tasks the call spawned
    rw_trace,            \* the request mod_http1_proxy_req mutates: its successive values
    rw_results,          \* the results of the successive calls of mod_http1_proxy_req
    lm_rules,            \* the rules of one host bucket, in insertion order
    lm_path,             \* the request path looked up in that bucket
    lm_found,            \* the lookups made: the bucket as it was, and the rule found
    hr_req,              \* Option: the request given to extract_scheme_host_port
    hr_result,           \* Option: what extract_scheme_host_port returned for it
    tunnel_pc,           \* where the task spawned by tunnel_proxy is
    events,              \* what the connection and the task did, in order
    copy,                \* the two directions of copy_bidirectional
    idle_ticks,          \* time since the last byte read from or written to the target
    param,               \* the command line Config::try_from was given
    loaded,              \* what Config::try_from returned for it
    tunnels,             \* the tunnel tasks that were spawned, in spawn order
    wire                 \* what each peer of each tunnel has received

\* the state of the components that are exercised on their own
component_vars ==
    <<rw_trace, rw_results, lm_rules, lm_path, lm_found, hr_req, hr_result>>

\* the state of one call of handle
handle_vars == <<req, client_socket_addr, outcome, calls, matched, sent,
                 access_label, replied, spawned>>

\* the state of the task spawned by tunnel_proxy
tunnel_vars == <<tunnel_pc, events, copy, idle_ticks>>

\* what startup fixes: the command line, the configuration and the local address
startup_vars == <<cfg, local_ip, param, loaded>>

\* the tunnel tasks that run side by side, and their peers
pool_vars == <<tunnels, wire>>

vars == <<startup_vars, req, client_socket_addr, outcome, calls, matched,
          sent, access_label, replied, spawned, component_vars, tunnel_vars,
          pool_vars>>

-----------------------------------------------------------------------------
(* Option and text helpers *)

None == <<>>

Some(x) == <<x>>

IsSome(o) == Len(o) = 1

Unwrap(o) == o[1]

\* str::starts_with
starts_with(s, p) ==
    /\ Len(p) <= Len(s)
    /\ \A i \in 1..Len(p) : s[i] = p[i]

\* index of the first occurrence of c in s at or after i, or Len(s)+1
RECURSIVE find_char(_, _, _)
find_char(s, c, i) ==
    IF i > Len(s) THEN Len(s) + 1
    ELSE IF s[i] = c THEN i
    ELSE find_char(s, c, i + 1)

\* str::split(c), collected: never empty, "" splits into <<"">>
RECURSIVE split(_, _)
split(s, c) ==
    LET k == find_char(s, c, 1)
    IN  IF k > Len(s) THEN <<s>>
        ELSE <<SubSeq(s, 1, k - 1)>> \o split(SubSeq(s, k + 1, Len(s)), c)

Digits == <<"0", "1", "2", "3", "4", "5", "6", "7", "8", "9">>

IsDigit(ch) == \E d \in 1..10 : Digits[d] = ch

DigitValue(ch) == (CHOOSE d \in 1..10 : Digits[d] = ch) - 1

U16_MAX == 65535

\* value of a digit string, saturating just above U16_MAX (checked arithmetic)
RECURSIVE digits_value(_, _)
digits_value(s, acc) ==
    IF s = <<>> THEN acc
    ELSE IF acc > U16_MAX THEN acc
    ELSE digits_value(Tail(s), acc * 10 + DigitValue(Head(s)))

\* str::parse::<u16>: an optional '+', then one or more digits, no overflow
parse_u16(s) ==
    LET body == IF s # <<>> /\ Head(s) = "+" THEN Tail(s) ELSE s
    IN  IF body = <<>> \/ \E i \in 1..Len(body) : ~IsDigit(body[i]) THEN None
        ELSE IF digits_value(body, 0) > U16_MAX THEN None
        ELSE Some(digits_value(body, 0))

\* Display of an unsigned integer
RECURSIVE to_decimal(_)
to_decimal(n) ==
    IF n < 10 THEN <<Digits[n + 1]>>
    ELSE to_decimal(n \div 10) \o <<Digits[(n % 10) + 1]>>


-----------------------------------------------------------------------------
(* IP addresses and networks.  An address is [v, a]: v = 4 with four 8-bit  *)
(* octets, or v = 6 with eight 16-bit segments.                             *)

V4(a, b, c, d) == [v |-> 4, a |-> <<a, b, c, d>>]

V6(segs) == [v |-> 6, a |-> segs]

Net(ip, prefix) == [v |-> ip.v, a |-> ip.a, prefix |-> prefix]

\* IpAddr::to_canonical: an IPv4-mapped IPv6 address (::ffff:a.b.c.d) becomes
\* the IPv4 address, every other address is unchanged
to_canonical(ip) ==
    IF /\ ip.v = 6
       /\ \A i \in 1..5 : ip.a[i] = 0
       /\ ip.a[6] = 65535
    THEN V4(ip.a[7] \div 256, ip.a[7] % 256, ip.a[8] \div 256, ip.a[8] % 256)
    ELSE ip

Pow2(n) == IF n = 0 THEN 1 ELSE 2 ^ n

\* IpNetwork::contains: same family, and equal under the prefix mask
contains(network, ip) ==
    /\ network.v = ip.v
    /\ LET w == IF ip.v = 4 THEN 8 ELSE 16
       IN  \A i \in 1..Len(ip.a) :
               LET rest == network.prefix - w * (i - 1)
                   k    == IF rest < 0 THEN 0 ELSE IF rest > w THEN w ELSE rest
               IN  network.a[i] \div Pow2(w - k) = ip.a[i] \div Pow2(w - k)

-----------------------------------------------------------------------------
(* URIs (http::Uri).  [scheme, host, port, path, query]: scheme, host, port *)
(* and query are Options; path is the stored path text, possibly empty.     *)

Uri(scheme, host, port, path, query) ==
    [scheme |-> scheme, host |-> host, port |-> port, path |-> path, query |-> query]

\* Uri::path_and_query: present when the URI has a scheme or stored path data
has_path_and_query(uri) ==
    IsSome(uri.scheme) \/ uri.path # <<>> \/ IsSome(uri.query)

\* Uri::path: "/" for an empty stored path, "" for an authority-form URI
uri_path(uri) ==
    IF uri.path # <<>> THEN uri.path
    ELSE IF has_path_and_query(uri) THEN <<"/">>
    ELSE <<>>

\* PathAndQuery::as_str() == "/"
pq_is_slash(uri) ==
    uri.query = None /\ (uri.path = <<>> \/ uri.path = <<"/">>)

is_schema_secure(uri) ==
    IF IsSome(uri.scheme) THEN Unwrap(uri.scheme) \in {"wss", "https"} ELSE FALSE

origin_form_keeps_authority(uri) ==
    IF has_path_and_query(uri) /\ ~pq_is_slash(uri) THEN uri
    ELSE Uri(uri.scheme, uri.host, uri.port, <<"/">>, None)

\* fn origin_form: the URI becomes its path and query, "/" when it has none
origin_form(uri) ==
    IF has_path_and_query(uri) /\ ~pq_is_slash(uri)
    THEN Uri(None, None, None, uri.path, uri.query)
    ELSE Uri(None, None, None, <<"/">>, None)

-----------------------------------------------------------------------------
(* Requests: [method, version, uri, headers], headers a record of Options. *)

Headers(host, pauth, pconn) ==
    [host |-> host, proxy_authorization |-> pauth, proxy_connection |-> pconn]

Request(method, version, uri, headers) ==
    [method |-> method, version |-> version, uri |-> uri, headers |-> headers]

IoOk(x) == [ok |-> TRUE, val |-> x, err |-> ""]

IoErr(kind) == [ok |-> FALSE, val |-> None, err |-> kind]

strip_proxy_headers_auth_only(headers) ==
    [headers EXCEPT !.proxy_authorization = None]

\* headers_mut().remove(PROXY_AUTHORIZATION), headers_mut().remove("Proxy-Connection")
strip_proxy_headers(headers) ==
    [headers EXCEPT !.proxy_authorization = None, !.proxy_connection = None]

\* the Host header value mod_http1_proxy_req computes from a URI with a host
host_header_of(uri) ==
    LET hostname == Unwrap(uri.host)
        port     == IF uri.port = Some(443) /\ is_schema_secure(uri) THEN None
                    ELSE IF uri.port = Some(80) /\ ~is_schema_secure(uri) THEN None
                    ELSE uri.port
    IN  IF IsSome(port) THEN hostname \o <<":">> \o to_decimal(Unwrap(port))
        ELSE hostname

\* fn mod_http1_proxy_req: on success the rewritten request
mod_http1_proxy_req(r) ==
    LET stripped == strip_proxy_headers(r.headers)
    IN  IF r.uri.host = None THEN IoErr("InvalidData")
        ELSE IoOk(Request(r.method, r.version, origin_form(r.uri),
                          [stripped EXCEPT !.host = Some(host_header_of(r.uri))]))

\* fn extract_scheme_host_port: (SchemeHostPort, RequestDomain) or an error
extract_scheme_host_port(r, default_scheme) ==
    LET uri    == r.uri
        scheme == IF IsSome(uri.scheme) THEN Unwrap(uri.scheme) ELSE default_scheme
    IN  IF r.version = "HTTP/2"
        THEN IF uri.host = None THEN IoErr("InvalidData")
             ELSE LET host_in_url == Unwrap(uri.host)
                      host_in_header ==
                          IF IsSome(r.headers.host)
                          THEN Some(split(Unwrap(r.headers.host), ":")[1])
                          ELSE None
                  IN  IoOk([shp    |-> [scheme |-> scheme, host |-> host_in_url,
                                        port |-> uri.port],
                            domain |-> IF IsSome(host_in_header)
                                       THEN Unwrap(host_in_header)
                                       ELSE host_in_url])
        ELSE IF r.headers.host = None THEN IoErr("InvalidData")
             ELSE LET parts == split(Unwrap(r.headers.host), ":")
                      host  == parts[1]
                      port  == IF Len(parts) >= 2 THEN Some(parse_u16(parts[2]))
                               ELSE None
                  IN  IF IsSome(port) /\ Unwrap(port) = None THEN IoErr("InvalidData")
                      ELSE IoOk([shp    |-> [scheme |-> scheme, host |-> host,
                                             port |-> IF IsSome(port)
                                                      THEN Unwrap(port) ELSE None],
                                 domain |-> host])

-----------------------------------------------------------------------------
(* Collaborators whose code is outside the two source files. *)

\* reverse::DEFAULT_HOST, the key of the fallback bucket
DEFAULT_HOST == <<"d", "e", "f", "a", "u", "l", "t", "_", "h", "o", "s", "t">>

\* axum_handler::check_auth: anonymous when the table is empty, else the
\* user the verbatim header value maps to, else an error
check_auth(headers, header_name, table) ==
    IF DOMAIN table = {} THEN IoOk(None)
    ELSE IF /\ IsSome(headers[header_name])
            /\ Unwrap(headers[header_name]) \in DOMAIN table
         THEN IoOk(Some(table[Unwrap(headers[header_name])]))
         ELSE IoErr("auth")

\* address::host_addr: the URI authority as host:port, None without a host
host_addr(uri) ==
    IF uri.host = None THEN None
    ELSE Some([host |-> Unwrap(uri.host),
               port |-> IF IsSome(uri.port) THEN Unwrap(uri.port)
                        ELSE IF is_schema_secure(uri) THEN 443 ELSE 80])

-----------------------------------------------------------------------------
(* Responses and outcomes *)

Response(status, headers, body) ==
    [status |-> status, headers |-> headers, body |-> body]

Drop == [kind |-> "Drop", resp |-> None, req |-> None, err |-> ""]

Return(resp) == [kind |-> "Return", resp |-> Some(resp), req |-> None, err |-> ""]

Continue(r) == [kind |-> "Continue", resp |-> None, req |-> Some(r), err |-> ""]

Err(kind) == [kind |-> "Err", resp |-> None, req |-> None, err |-> kind]

\* Result<Response, io::Error>.map(InterceptResultAdapter::Return)
MapReturn(res) == IF res.ok THEN Return(res.val) ELSE Err(res.err)

NoCalls ==
    [resolver |-> 0, matcher |-> 0, reverse |-> 0, gate |-> 0, serve |-> 0,
     auth |-> 0, tunnel |-> 0, simple |-> 0, upstream |-> 0]

\* what one call of handle did
Done(out, cl, rule, snt, label, rep, new_tasks) ==
    [outcome |-> out, calls |-> cl, matched |-> rule, sent |-> snt,
     access_label |-> label, replied |-> rep, spawned |-> new_tasks]

\* fn build_authenticate_resp
build_authenticate_resp(for_proxy) ==
    Response(IF for_proxy THEN 407 ELSE 401,
             << <<IF for_proxy THEN "proxy-authenticate" ELSE "www-authenticate",
                  "Basic realm=\"are you kidding me\"">> >>,
             "auth need")

-----------------------------------------------------------------------------
(* ProxyHandler *)

select_locations_then_default(locations, domain) ==
    IF domain \in DOMAIN locations
    THEN Some(locations[domain] \o
              (IF DEFAULT_HOST \in DOMAIN locations THEN locations[DEFAULT_HOST]
               ELSE <<>>))
    ELSE IF DEFAULT_HOST \in DOMAIN locations THEN Some(locations[DEFAULT_HOST])
    ELSE None

\* CONFIG.reverse_proxy_config.locations.get(domain).or(get(DEFAULT_HOST))
select_locations(locations, domain) ==
    IF domain \in DOMAIN locations THEN Some(locations[domain])
    ELSE IF DEFAULT_HOST \in DOMAIN locations THEN Some(locations[DEFAULT_HOST])
    ELSE None

find_location_longest(rules, path) ==
    LET hits == {i \in 1..Len(rules) : starts_with(path, rules[i].location)}
    IN  IF hits = {} THEN None
        ELSE Some(rules[CHOOSE i \in hits :
                        \A j \in hits :
                            \/ Len(rules[j].location) < Len(rules[i].location)
                            \/ (Len(rules[j].location) = Len(rules[i].location) /\ i <= j)])

find_location_exact(rules, path) ==
    IF \E i \in 1..Len(rules) : path = rules[i].location
    THEN Some(rules[CHOOSE i \in 1..Len(rules) : path = rules[i].location])
    ELSE None

\* locations.iter().find(|ele| path.starts_with(&ele.location))
find_location(rules, path) ==
    LET hits == {i \in 1..Len(rules) : starts_with(path, rules[i].location)}
    IN  IF hits = {} THEN None
        ELSE Some(rules[CHOOSE i \in hits : \A j \in hits : i <= j])

is_serving_request_no_h2(r) == r.uri.host = None

is_serving_request_h2_only(r) == r.version = "HTTP/2"

\* req.version() == Version::HTTP_2 || req.uri().host().is_none()
is_serving_request(r) == r.version = "HTTP/2" \/ r.uri.host = None

serving_gate_raw_ip(serving_control, addr) ==
    IF serving_control.prohibit_serving THEN "prohibited"
    ELSE IF /\ serving_control.allowed_networks # <<>>
            /\ ~\E i \in 1..Len(serving_control.allowed_networks) :
                   contains(serving_control.allowed_networks[i], addr)
         THEN "denied"
         ELSE "permit"

serving_gate_networks_only(serving_control, addr) ==
    IF /\ serving_control.allowed_networks # <<>>
       /\ ~\E i \in 1..Len(serving_control.allowed_networks) :
              contains(serving_control.allowed_networks[i], to_canonical(addr))
    THEN "denied"
    ELSE "permit"

\* the prohibit_serving and allowed_networks checks of handle
serving_gate(serving_control, addr) ==
    IF serving_control.prohibit_serving THEN "prohibited"
    ELSE LET client_ip        == to_canonical(addr)
             allowed_networks == serving_control.allowed_networks
         IN  IF /\ allowed_networks # <<>>
                /\ ~\E i \in 1..Len(allowed_networks) :
                       contains(allowed_networks[i], client_ip)
             THEN "denied"
             ELSE "permit"

serve_outcome_return_404(r, served) ==
    IF served.ok THEN Return(served.val) ELSE Err(served.err)

\* the match on self.serve_request(..).await
serve_outcome(r, served) ==
    IF served.ok
    THEN IF served.val.status = 404 THEN Continue(r) ELSE Return(served.val)
    ELSE Err(served.err)

PAD_BUDGET == 2048

padding_counts_from_zero(ip) == 0..((PAD_BUDGET \div Len(ip)) - 1)

\* rand::rng().random_range(1..max_num), max_num = 2048 / LOCAL_IP.len()
padding_counts(ip) == 1..((PAD_BUDGET \div Len(ip)) - 1)

connect_error_resp_ok ==
    Response(200, <<>>, "CONNECT must be to a socket address")

\* the response of tunnel_proxy to a CONNECT that names no socket address
connect_error_resp ==
    Response(400, <<>>, "CONNECT must be to a socket address")

\* fn tunnel_proxy: the response, and the task it spawns
tunnel_proxy(r, addr, username, ip, count) ==
    IF IsSome(host_addr(r.uri))
    THEN [resp  |-> IoOk(Response(200, [i \in 1..count |-> <<"server", ip>>], "")),
          tasks |-> << [client   |-> to_canonical(addr),
                        target   |-> Unwrap(host_addr(r.uri)),
                        username |-> username,
                        pc       |-> "upgrading"] >>]
    ELSE [resp |-> IoOk(connect_error_resp), tasks |-> <<>>]

\* fn build_access_label
build_access_label(r, addr, username) ==
    IF host_addr(r.uri) = None THEN IoErr("InvalidData")
    ELSE IoOk([client   |-> to_canonical(addr),
               target   |-> Unwrap(host_addr(r.uri)),
               username |-> username])

\* fn simple_proxy; forwarded is the result of the pooled client's send_request
simple_proxy(r, addr, username, forwarded) ==
    LET label == build_access_label(r, addr, username)
    IN  IF ~label.ok THEN [resp |-> IoErr(label.err), sent |-> None, label |-> None]
        ELSE LET rewritten == mod_http1_proxy_req(r)
             IN  IF ~rewritten.ok
                 THEN [resp |-> IoErr(rewritten.err), sent |-> None,
                       label |-> Some(label.val)]
                 ELSE [resp |-> forwarded, sent |-> Some(rewritten.val),
                       label |-> Some(label.val)]

proxy_auth_skipped(r, table) == IoOk(None)

\* check_auth(req.headers(), PROXY_AUTHORIZATION, config_basic_auth)
proxy_auth(r, table) == check_auth(r.headers, "proxy_authorization", table)

auth_failure_always_ask(never_ask_for_auth) ==
    Return(build_authenticate_resp(TRUE))

\* the Err arm of the proxy stage
auth_failure(never_ask_for_auth) ==
    IF never_ask_for_auth THEN Err("PermissionDenied")
    ELSE Return(build_authenticate_resp(TRUE))

\* "2. proxy stage" of handle; cl counts the calls made so far
proxy_stage(c, ip, r, addr, cl, reply, count) ==
    LET auth == proxy_auth(r, c.basic_auth)
        cl1  == [cl EXCEPT !.auth = 1]
    IN  IF auth.ok
        THEN LET username == IF IsSome(auth.val) THEN Unwrap(auth.val) ELSE "unknown"
             IN  IF r.method = "CONNECT"
                 THEN LET t == tunnel_proxy(r, addr, username, ip, count)
                      IN  Done(MapReturn(t.resp), [cl1 EXCEPT !.tunnel = 1],
                               None, None, None, None, t.tasks)
                 ELSE LET p == simple_proxy(r, addr, username, reply)
                      IN  Done(MapReturn(p.resp),
                               [cl1 EXCEPT !.simple = 1,
                                           !.upstream = IF IsSome(p.sent) THEN 1 ELSE 0],
                               None, p.sent, p.label,
                               IF IsSome(p.sent) THEN Some(reply) ELSE None, <<>>)
        ELSE Done(auth_failure(c.never_ask_for_auth), cl1,
                  None, None, None, None, <<>>)

serving_stage_ungated(c, r, addr, cl, reply) ==
    LET gate == serving_gate(c.serving_control, addr)
        cl1  == [cl EXCEPT !.gate = 1, !.serve = 1]
    IN  IF gate # "permit" THEN Done(Drop, cl1, None, None, None, Some(reply), <<>>)
        ELSE Done(serve_outcome(r, reply), cl1, None, None, None, Some(reply), <<>>)

\* the static-serving branch of handle; reply is what serve_request returns
serving_stage(c, r, addr, cl, reply) ==
    LET gate == serving_gate(c.serving_control, addr)
        cl1  == [cl EXCEPT !.gate = 1]
    IN  IF gate # "permit" THEN Done(Drop, cl1, None, None, None, None, <<>>)
        ELSE Done(serve_outcome(r, reply), [cl1 EXCEPT !.serve = 1],
                  None, None, None, Some(reply), <<>>)

\* location_config.handle(..).await.map(Return); reply is what it returns
reverse_stage(rule, r, cl, reply) ==
    Done(MapReturn(reply), [cl EXCEPT !.reverse = 1],
         Some(rule), None, None, Some(reply), <<>>)

\* ProxyHandler::handle
handle(c, ip, r, addr, reply, count) ==
    IF r.method # "CONNECT"
    THEN LET resolved == extract_scheme_host_port(
                             r, IF c.over_tls THEN "https" ELSE "http")
             cl1      == [NoCalls EXCEPT !.resolver = 1]
         IN  IF ~resolved.ok
             THEN Done(Err(resolved.err), cl1, None, None, None, None, <<>>)
             ELSE LET location_config_of_host ==
                          select_locations(c.reverse_proxy_config, resolved.val.domain)
                      location_config ==
                          IF IsSome(location_config_of_host)
                          THEN find_location(Unwrap(location_config_of_host),
                                             uri_path(r.uri))
                          ELSE None
                      cl2 == [cl1 EXCEPT !.matcher = 1]
                  IN  IF IsSome(location_config)
                      THEN reverse_stage(Unwrap(location_config), r, cl2, reply)
                      ELSE IF is_serving_request(r)
                      THEN serving_stage(c, r, addr, cl2, reply)
                      ELSE proxy_stage(c, ip, r, addr, cl2, reply, count)
    ELSE proxy_stage(c, ip, r, addr, NoCalls, reply, count)

-----------------------------------------------------------------------------
(* The configurations, addresses and requests the model ranges over. *)

HostA == <<"a">>

HostB == <<"b">>

PathRoot == <<"/">>

PathX == <<"/", "x">>

PathXY == <<"/", "x", "/", "y">>

GoodAuth == "Basic YWxpY2U6c2VjcmV0"

BadAuth == "Basic bWFsbG9yeTp4"

NoUsers == [k \in {} |-> ""]

Alice == [k \in {GoodAuth} |-> "alice"]

Rule(location, upstream) == [location |-> location, upstream |-> upstream]

NoLocations == [k \in {} |-> <<>>]

LocationsWithDefault ==
    [k \in {HostA, DEFAULT_HOST} |->
        IF k = HostA THEN <<Rule(PathXY, "up-xy"), Rule(PathX, "up-x")>>
        ELSE <<Rule(PathRoot, "up-default")>>]

LocationsHostOnly ==
    [k \in {HostA} |-> <<Rule(PathX, "up-x"), Rule(PathXY, "up-xy")>>]

NetworkLists ==
    { <<>>,
      <<Net(V4(10, 0, 0, 0), 8), Net(V4(192, 168, 1, 0), 30)>>,
      <<Net(V6(<<0, 0, 0, 0, 0, 65535, 0, 0>>), 96),
        Net(V6(<<8193, 3512, 0, 0, 0, 0, 0, 0>>), 32)>> }

Configs ==
    { [basic_auth           |-> users,
       never_ask_for_auth   |-> never_ask,
       serving_control      |-> [prohibit_serving |-> prohibit,
                                 allowed_networks |-> networks],
       over_tls             |-> tls,
       reverse_proxy_config |-> locations] :
        users \in {NoUsers, Alice}, never_ask \in BOOLEAN, prohibit \in BOOLEAN,
        networks \in NetworkLists, tls \in BOOLEAN,
        locations \in {NoLocations, LocationsWithDefault, LocationsHostOnly} }

\* the configurations that differ in the credential table and the 407 flag
AuthConfigs ==
    { c \in Configs :
        /\ ~c.serving_control.prohibit_serving
        /\ c.serving_control.allowed_networks = <<>>
        /\ ~c.over_tls
        /\ c.reverse_proxy_config = LocationsWithDefault }

\* a local address of the greatest length an IpAddr displays with
LongLocalIp == "2001:db80:85a3:8d3a:1319:8a2e:3707:7348"

\* "0.0.0.0" is the fallback of the LOCAL_IP static
LocalIps == {"0.0.0.0", "192.168.100.100", LongLocalIp}

\* 10.1.2.3, 192.168.1.5 and the IPv4-mapped ::ffff:10.1.2.3
ClientAddrs ==
    { V4(10, 1, 2, 3), V4(192, 168, 1, 5),
      V6(<<0, 0, 0, 0, 0, 65535, 2561, 515>>) }

HostHeaders == { None, Some(HostA), Some(<<"b", ":", "8", "1">>) }

\* (Proxy-Authorization, Proxy-Connection)
ProxyHeaders ==
    { <<None, None>>, <<Some(GoodAuth), Some("keep-alive")>>,
      <<Some(BadAuth), None>> }

HeaderSets ==
    { Headers(h, p[1], p[2]) : h \in HostHeaders, p \in ProxyHeaders }

\* a CONNECT names its target in the Host header too
ConnectHeaderSets ==
    { Headers(Some(<<"a", ":", "4", "4", "3">>), p[1], p[2]) : p \in ProxyHeaders }

\* origin-form and absolute-form request targets
HttpUris ==
    { Uri(None, None, None, PathRoot, None),
      Uri(None, None, None, PathXY, None),
      Uri(Some("http"), Some(HostA), None, PathXY, None),
      Uri(Some("http"), Some(HostA), Some(80), <<>>, None),
      Uri(Some("http"), Some(HostB), Some(443), PathX, Some("q")),
      Uri(Some("https"), Some(HostA), Some(443), PathXY, None),
      Uri(Some("https"), Some(HostA), Some(80), PathRoot, None),
      Uri(Some("ws"), Some(HostB), Some(80), <<>>, Some("q")),
      Uri(Some("wss"), Some(HostB), None, <<>>, None),
      Uri(Some("wss"), Some(HostA), Some(8080), PathXY, None) }

\* authority-form targets, and one target that names no authority
ConnectUris ==
    { Uri(None, Some(HostA), Some(443), <<>>, None),
      Uri(None, Some(HostB), Some(80), <<>>, None),
      Uri(None, None, None, PathRoot, None) }

Versions == {"HTTP/1.1", "HTTP/2"}

HttpRequests ==
    { Request("GET", v, u, h) : v \in Versions, u \in HttpUris, h \in HeaderSets }

ConnectRequests ==
    { Request("CONNECT", v, u, h) :
        v \in Versions, u \in ConnectUris, h \in ConnectHeaderSets }

\* what the awaited collaborator (reverse-proxy handler, static-file
\* responder or pooled client) returns
Replies ==
    { IoOk(Response(200, <<>>, "ok")), IoOk(Response(404, <<>>, "not found")),
      IoErr("Other") }

-----------------------------------------------------------------------------
(* The state machine *)

Idle ==
    /\ req = None
    /\ client_socket_addr = None
    /\ outcome = None
    /\ calls = NoCalls
    /\ matched = None
    /\ sent = None
    /\ access_label = None
    /\ replied = None
    /\ spawned = <<>>

\* no request is being rewritten
RewriterUnused == rw_trace = <<>> /\ rw_results = <<>>

\* no bucket is being searched
MatcherUnused == lm_rules = <<>> /\ lm_path = <<>> /\ lm_found = <<>>

\* no request is being resolved
ResolverUnused == hr_req = None /\ hr_result = None

\* no tunnel task exists
TunnelUnused ==
    /\ tunnel_pc = "none"
    /\ events = <<>>
    /\ copy = <<>>
    /\ idle_ticks = 0

\* the configuration was not built from a command line
StartupUnused == param = None /\ loaded = None

\* no tunnel tasks run side by side
PoolUnused == tunnels = <<>> /\ wire = <<>>

ComponentsUnused ==
    /\ RewriterUnused /\ MatcherUnused /\ ResolverUnused /\ TunnelUnused
    /\ StartupUnused /\ PoolUnused

Init ==
    /\ cfg \in Configs
    /\ local_ip = LongLocalIp
    /\ Idle
    /\ ComponentsUnused

\* every local address, under the configurations of the proxy stage
InitLocalIps ==
    /\ cfg \in AuthConfigs
    /\ local_ip \in LocalIps
    /\ Idle
    /\ ComponentsUnused

\* the call of handle that did d has returned
Returned(r, addr, d) ==
    /\ req' = Some(r)
    /\ client_socket_addr' = Some(addr)
    /\ outcome' = Some(d.outcome)
    /\ calls' = d.calls
    /\ matched' = d.matched
    /\ sent' = d.sent
    /\ access_label' = d.access_label
    /\ replied' = d.replied
    /\ spawned' = d.spawned

TheOutcomeOf(o) == Unwrap(o)

\* the state after a call of handle that did d
Deliver(r, addr, d) ==
    /\ Returned(r, addr, d)
    /\ UNCHANGED <<startup_vars, pool_vars, component_vars, tunnel_vars>>

\* handle on a request that is not a CONNECT
HandleHttp ==
    /\ req = None
    /\ \E r \in HttpRequests, addr \in ClientAddrs, reply \in Replies :
           Deliver(r, addr, handle(cfg, local_ip, r, addr, reply, 1))

\* handle on a CONNECT; count is the random number tunnel_proxy draws
HandleConnect ==
    /\ req = None
    /\ \E r \in ConnectRequests, addr \in ClientAddrs :
       \E count \in padding_counts(local_ip) :
           Deliver(r, addr, handle(cfg, local_ip, r, addr, IoErr("unused"), count))

\* the handler is ready for the next request
Reset ==
    /\ req' = None
    /\ client_socket_addr' = None
    /\ outcome' = None
    /\ calls' = NoCalls
    /\ matched' = None
    /\ sent' = None
    /\ access_label' = None
    /\ replied' = None
    /\ spawned' = <<>>

\* the connection runtime takes the outcome; the handler is ready again
Finish ==
    /\ req # None
    /\ Reset
    /\ UNCHANGED <<startup_vars, pool_vars, component_vars, tunnel_vars>>

Next == HandleHttp \/ HandleConnect \/ Finish

Spec == Init /\ [][Next]_vars

SpecLocalIps == InitLocalIps /\ [][Next]_vars

-----------------------------------------------------------------------------
(* The RequestRewriter on its own: mod_http1_proxy_req applied, in place,  *)
(* to a request and then again to what the request has become.             *)

\* how often the rewriter is applied to one request
MaxApplications == 2

\* the request after a call of mod_http1_proxy_req(&mut req): the headers
\* are removed before the host is looked at, so a failed call leaves them
\* removed
rewritten_in_place(r) ==
    LET res == mod_http1_proxy_req(r)
    IN  IF res.ok THEN res.val
        ELSE [r EXCEPT !.headers = strip_proxy_headers(r.headers)]

InitRewriter ==
    /\ cfg \in {c \in AuthConfigs : DOMAIN c.basic_auth = {} /\ ~c.never_ask_for_auth}
    /\ local_ip = LongLocalIp
    /\ Idle
    /\ \E r \in HttpRequests : rw_trace = <<r>>
    /\ rw_results = <<>>
    /\ MatcherUnused
    /\ ResolverUnused
    /\ TunnelUnused
    /\ StartupUnused
    /\ PoolUnused

ApplyRewriter ==
    /\ Len(rw_results) < MaxApplications
    /\ LET r   == rw_trace[Len(rw_trace)]
           res == mod_http1_proxy_req(r)
       IN  /\ rw_trace' = Append(rw_trace, rewritten_in_place(r))
           /\ rw_results' = Append(rw_results, IF res.ok THEN "Ok" ELSE res.err)
    /\ UNCHANGED <<startup_vars, pool_vars, handle_vars, lm_rules, lm_path, lm_found,
                   hr_req, hr_result, tunnel_vars>>

NextRewriter == ApplyRewriter

SpecRewriter == InitRewriter /\ [][NextRewriter]_vars

-----------------------------------------------------------------------------
(* The LocationMatcher on its own: the lookup of handle in one bucket,     *)
(* before and after two adjacent rules of the bucket change places.        *)

\* how many rules a bucket holds
MaxRules == 3

\* how many lookups are made in one bucket
MaxLookups == 2

PathZ == <<"/", "z">>

\* the rules a bucket is built from; no two share an upstream
MatcherRules ==
    { Rule(PathRoot, "up-default"), Rule(PathX, "up-x"), Rule(PathXY, "up-xy"),
      Rule(PathZ, "up-z") }

\* the buckets: up to MaxRules different rules in any order
MatcherBuckets ==
    UNION { { b \in [1..n -> MatcherRules] :
                \A i, j \in 1..n : i # j => b[i] # b[j] } : n \in 0..MaxRules }

\* raw request paths: "/%78" is the percent-encoded form of "/x"
MatcherPaths ==
    { PathRoot, PathX, PathXY, PathZ, <<"/", "x", "z">>, <<"/", "%", "7", "8">> }

\* rules with the rules at i and i+1 in each other's place
swap_adjacent(rules, i) ==
    [k \in 1..Len(rules) |->
        IF k = i THEN rules[i + 1] ELSE IF k = i + 1 THEN rules[i] ELSE rules[k]]

InitMatcher ==
    /\ cfg \in {c \in AuthConfigs : DOMAIN c.basic_auth = {} /\ ~c.never_ask_for_auth}
    /\ local_ip = LongLocalIp
    /\ Idle
    /\ RewriterUnused
    /\ ResolverUnused
    /\ TunnelUnused
    /\ StartupUnused
    /\ PoolUnused
    /\ lm_rules \in MatcherBuckets
    /\ lm_path \in MatcherPaths
    /\ lm_found = <<>>

\* locations.iter().find(..) on the bucket as it is
FindLocation ==
    /\ Len(lm_found) < MaxLookups
    /\ Len(lm_found) = 1 => lm_found[1].rules # lm_rules
    /\ lm_found' = Append(lm_found, [rules |-> lm_rules, swapped |-> 0,
                                      found |-> find_location(lm_rules, lm_path)])
    /\ UNCHANGED <<startup_vars, pool_vars, handle_vars, rw_trace, rw_results, lm_rules,
                   lm_path, hr_req, hr_result, tunnel_vars>>

\* the configuration lists two adjacent rules in the other order
SwapRules ==
    /\ Len(lm_found) = 1
    /\ lm_found[1].rules = lm_rules
    /\ \E i \in 1..(Len(lm_rules) - 1) :
           /\ lm_rules' = swap_adjacent(lm_rules, i)
           /\ lm_found' = <<[lm_found[1] EXCEPT !.swapped = i]>>
    /\ UNCHANGED <<startup_vars, pool_vars, handle_vars, rw_trace, rw_results, lm_path,
                   hr_req, hr_result, tunnel_vars>>

NextMatcher == FindLocation \/ SwapRules

SpecMatcher == InitMatcher /\ [][NextMatcher]_vars

-----------------------------------------------------------------------------
(* The HostResolver on its own: extract_scheme_host_port on requests whose *)
(* Host header has an empty host, or a port that is zero, too large, not a *)
(* number or followed by more text.                                        *)

ResolverHostHeaders ==
    { None, Some(HostA), Some(<<"b", ":", "8", "1">>),
      Some(<<>>), Some(<<":", "8", "0">>), Some(<<"a", ":">>),
      Some(<<"a", ":", "0">>), Some(<<"a", ":", "+", "8", "0">>),
      Some(<<"a", ":", "6", "5", "5", "3", "5">>),
      Some(<<"a", ":", "6", "5", "5", "3", "6">>),
      Some(<<"a", ":", "x">>), Some(<<"a", ":", "8", "0", ":", "9", "0">>) }

ResolverRequests ==
    { Request("GET", v, u, Headers(h, None, None)) :
        v \in Versions, h \in ResolverHostHeaders,
        u \in { Uri(None, None, None, PathRoot, None),
                Uri(Some("http"), Some(HostB), Some(443), PathX, Some("q")),
                Uri(Some("https"), Some(HostA), None, PathXY, None) } }

InitResolver ==
    /\ cfg \in {c \in AuthConfigs : DOMAIN c.basic_auth = {} /\ ~c.never_ask_for_auth}
    /\ local_ip = LongLocalIp
    /\ Idle
    /\ RewriterUnused
    /\ MatcherUnused
    /\ TunnelUnused
    /\ StartupUnused
    /\ PoolUnused
    /\ hr_req \in {Some(r) : r \in ResolverRequests}
    /\ hr_result = None

\* extract_scheme_host_port(&req, default_scheme), as handle calls it
ExtractSchemeHostPort ==
    /\ hr_result = None
    /\ \E over_tls \in BOOLEAN :
           hr_result' = Some(extract_scheme_host_port(
                                 Unwrap(hr_req), IF over_tls THEN "https" ELSE "http"))
    /\ UNCHANGED <<startup_vars, pool_vars, handle_vars, rw_trace, rw_results, lm_rules,
                   lm_path, lm_found, hr_req, tunnel_vars>>

NextResolver == ExtractSchemeHostPort

SpecResolver == InitResolver /\ [][NextResolver]_vars

-----------------------------------------------------------------------------
(* The TunnelEngine: tunnel_proxy answers the CONNECT and spawns a task    *)
(* that awaits the upgrade, connects to the target and runs fn tunnel,     *)
(* which is tokio::io::copy_bidirectional between the upgraded client      *)
(* stream (a) and the target stream (b) wrapped in CounterIO and           *)
(* TimeoutIO.  A direction reads from its source into a buffer and writes  *)
(* the buffer to its destination; at EOF it flushes and shuts down the     *)
(* destination's write half; the copy returns when both directions are     *)
(* done, or with the first error.                                          *)

\* how many bytes each peer sends
MaxBytes == 2

\* how many bytes the buffer of a direction holds
BufCap == 2

\* IDLE_TIMEOUT, in ticks of the clock
IdleTicks == 2

Dirs == {"a_to_b", "b_to_a"}

Other(d) == IF d = "a_to_b" THEN "b_to_a" ELSE "a_to_b"

\* the bytes the source of a direction sends, each one different
Message(d) == [i \in 1..MaxBytes |-> <<d, i>>]

\* a direction before its first read
NewDirection ==
    [sent |-> <<>>, closed |-> FALSE, buf |-> <<>>, read_done |-> FALSE,
     delivered |-> <<>>, done |-> FALSE]

\* the bytes the source has sent and the direction has not read
unread(c) == SubSeq(c.sent, Len(c.delivered) + Len(c.buf) + 1, Len(c.sent))

take_written_from_end(buf, k) == SubSeq(buf, Len(buf) - k + 1, Len(buf))

\* the bytes a write of k bytes takes from the buffer
take_written(buf, k) == SubSeq(buf, 1, k)

\* a read of k bytes from the source into the buffer
copy_read(c, k) == [c EXCEPT !.buf = c.buf \o SubSeq(unread(c), 1, k)]

copy_write_drops_rest(c, k) ==
    [c EXCEPT !.delivered = c.delivered \o take_written(c.buf, k), !.buf = <<>>]

\* a write of k bytes from the buffer to the destination
copy_write(c, k) ==
    [c EXCEPT !.delivered = c.delivered \o take_written(c.buf, k),
              !.buf = SubSeq(c.buf, k + 1, Len(c.buf))]

\* the target is wrapped in TimeoutIO: reads of b_to_a and writes of a_to_b
\* go through it
reads_target(d) == d = "b_to_a"

writes_target(d) == d = "a_to_b"

copy_returns_at_first_eof(c, d) == TRUE

\* copy_bidirectional returns Ok when both directions are done
copy_returns(c, d) == c[Other(d)].done

on_upgrade_connects_anyway(upgraded) ==
    [pc |-> "connecting", log |-> IF upgraded THEN "upgraded" ELSE "upgrade error"]

\* match hyper::upgrade::on(req).await
on_upgrade(upgraded) ==
    IF upgraded THEN [pc |-> "connecting", log |-> "upgraded"]
    ELSE [pc |-> "done", log |-> "upgrade error"]

\* match TcpStream::connect(addr.to_string()).await
on_connect(connected) ==
    IF connected THEN [pc |-> "copying", log |-> "established"]
    ELSE [pc |-> "done", log |-> "tunnel establish error"]

\* an entry of events: what happened, and the status of a response
Event(what) == <<what, 0>>

\* a CONNECT to a:443, and one that names no authority
TunnelRequests ==
    { Request("CONNECT", "HTTP/1.1", u, Headers(Some(<<"a", ":", "4", "4", "3">>), p, None)) :
        u \in { Uri(None, Some(HostA), Some(443), <<>>, None),
                Uri(None, None, None, PathRoot, None) },
        p \in { None, Some(GoodAuth) } }

InitTunnel ==
    /\ cfg \in {c \in AuthConfigs : ~c.never_ask_for_auth}
    /\ local_ip = LongLocalIp
    /\ Idle
    /\ RewriterUnused
    /\ MatcherUnused
    /\ ResolverUnused
    /\ TunnelUnused
    /\ StartupUnused
    /\ PoolUnused

\* handle on the CONNECT of a connection: tunnel_proxy spawns the task
AcceptConnect ==
    /\ req = None
    /\ tunnel_pc = "none"
    /\ events = <<>>
    /\ \E r \in TunnelRequests :
           LET d == handle(cfg, local_ip, r, V4(10, 1, 2, 3), IoErr("unused"), 1)
           IN  /\ Returned(r, V4(10, 1, 2, 3), d)
               /\ tunnel_pc' = IF d.spawned # <<>> THEN "upgrading" ELSE "none"
    /\ events' = <<Event("request")>>
    /\ UNCHANGED <<startup_vars, pool_vars, component_vars, copy, idle_ticks>>

\* the connection runtime writes the response handle returned to the client
SendResponse ==
    /\ req # None
    /\ events' = Append(events, IF TheOutcomeOf(outcome).kind = "Return"
                                 THEN <<"response", Unwrap(TheOutcomeOf(outcome).resp).status>>
                                 ELSE Event("closed"))
    /\ Reset
    /\ UNCHANGED <<startup_vars, pool_vars, component_vars, tunnel_pc, copy, idle_ticks>>

\* hyper::upgrade::on(req) resolves: Ok only once the 200 is written
Upgrade ==
    /\ tunnel_pc = "upgrading"
    /\ \E upgraded \in BOOLEAN :
           /\ upgraded => \E i \in 1..Len(events) : events[i] = <<"response", 200>>
           /\ tunnel_pc' = on_upgrade(upgraded).pc
           /\ events' = Append(events, Event(on_upgrade(upgraded).log))
    /\ UNCHANGED <<startup_vars, pool_vars, handle_vars, component_vars, copy, idle_ticks>>

\* TcpStream::connect resolves; on Ok fn tunnel starts the copy
Connect ==
    /\ tunnel_pc = "connecting"
    /\ \E connected \in BOOLEAN :
           /\ tunnel_pc' = on_connect(connected).pc
           /\ events' = Append(events, Event(on_connect(connected).log))
           /\ copy' = IF connected THEN [d \in Dirs |-> NewDirection] ELSE copy
    /\ idle_ticks' = 0
    /\ UNCHANGED <<startup_vars, pool_vars, handle_vars, component_vars>>

\* the source of a direction sends its next byte
PeerSend(d) ==
    /\ tunnel_pc = "copying"
    /\ ~copy[d].closed
    /\ Len(copy[d].sent) < MaxBytes
    /\ copy' = [copy EXCEPT ![d].sent = Append(@, Message(d)[Len(@) + 1])]
    /\ UNCHANGED <<startup_vars, pool_vars, handle_vars, component_vars, tunnel_pc, events,
                   idle_ticks>>

\* the source of a direction closes its write half
PeerClose(d) ==
    /\ tunnel_pc = "copying"
    /\ ~copy[d].closed
    /\ copy' = [copy EXCEPT ![d].closed = TRUE]
    /\ UNCHANGED <<startup_vars, pool_vars, handle_vars, component_vars, tunnel_pc, events,
                   idle_ticks>>

\* poll_read of the source returns bytes
CopyRead(d) ==
    /\ tunnel_pc = "copying"
    /\ ~copy[d].done /\ ~copy[d].read_done
    /\ \E k \in 1..BufCap :
           /\ k <= Len(unread(copy[d]))
           /\ Len(copy[d].buf) + k <= BufCap
           /\ copy' = [copy EXCEPT ![d] = copy_read(@, k)]
    /\ idle_ticks' = IF reads_target(d) THEN 0 ELSE idle_ticks
    /\ UNCHANGED <<startup_vars, pool_vars, handle_vars, component_vars, tunnel_pc, events>>

\* poll_read of the source returns EOF
CopyEof(d) ==
    /\ tunnel_pc = "copying"
    /\ ~copy[d].done /\ ~copy[d].read_done
    /\ copy[d].closed /\ unread(copy[d]) = <<>>
    /\ copy' = [copy EXCEPT ![d].read_done = TRUE]
    /\ UNCHANGED <<startup_vars, pool_vars, handle_vars, component_vars, tunnel_pc, events,
                   idle_ticks>>

\* poll_write of the destination accepts bytes
CopyWrite(d) ==
    /\ tunnel_pc = "copying"
    /\ ~copy[d].done
    /\ \E k \in 1..BufCap :
           /\ k <= Len(copy[d].buf)
           /\ copy' = [copy EXCEPT ![d] = copy_write(@, k)]
    /\ idle_ticks' = IF writes_target(d) THEN 0 ELSE idle_ticks
    /\ UNCHANGED <<startup_vars, pool_vars, handle_vars, component_vars, tunnel_pc, events>>

\* after EOF and the last write: poll_flush and poll_shutdown of the
\* destination; the direction is done, and the copy when both are
CopyShutdown(d) ==
    /\ tunnel_pc = "copying"
    /\ ~copy[d].done /\ copy[d].read_done /\ copy[d].buf = <<>>
    /\ copy' = [copy EXCEPT ![d].done = TRUE]
    /\ IF copy_returns(copy, d)
       THEN tunnel_pc' = "done" /\ events' = Append(events, Event("tunnel closed"))
       ELSE UNCHANGED <<tunnel_pc, events>>
    /\ UNCHANGED <<startup_vars, pool_vars, handle_vars, component_vars, idle_ticks>>

\* a read or write of either stream fails: copy_bidirectional(..).await?
CopyFails ==
    /\ tunnel_pc = "copying"
    /\ tunnel_pc' = "done"
    /\ events' = Append(events, Event("tunnel io error"))
    /\ UNCHANGED <<startup_vars, pool_vars, handle_vars, component_vars, copy, idle_ticks>>

\* time passes without a byte read from or written to the target
Tick ==
    /\ tunnel_pc = "copying"
    /\ idle_ticks < IdleTicks
    /\ idle_ticks' = idle_ticks + 1
    /\ UNCHANGED <<startup_vars, pool_vars, handle_vars, component_vars, tunnel_pc, events, copy>>

\* the copy is waiting in a read, write, flush or shutdown of the target
target_pending ==
    \/ /\ ~copy["b_to_a"].done /\ ~copy["b_to_a"].read_done
       /\ Len(copy["b_to_a"].buf) < BufCap
       /\ unread(copy["b_to_a"]) = <<>> /\ ~copy["b_to_a"].closed
    \/ /\ ~copy["a_to_b"].done
       /\ (copy["a_to_b"].buf # <<>> \/ copy["a_to_b"].read_done)

\* TimeoutIO fails the pending operation of the target after IDLE_TIMEOUT
IdleTimeout ==
    /\ tunnel_pc = "copying"
    /\ idle_ticks = IdleTicks
    /\ target_pending
    /\ tunnel_pc' = "done"
    /\ events' = Append(events, Event("tunnel io error: timed out"))
    /\ UNCHANGED <<startup_vars, pool_vars, handle_vars, component_vars, copy, idle_ticks>>

CopyStep(d) == CopyRead(d) \/ CopyEof(d) \/ CopyWrite(d) \/ CopyShutdown(d)

NextTunnel ==
    \/ AcceptConnect
    \/ SendResponse
    \/ Upgrade
    \/ Connect
    \/ \E d \in Dirs : PeerSend(d) \/ PeerClose(d) \/ CopyStep(d)
    \/ CopyFails
    \/ Tick
    \/ IdleTimeout

\* the runtime polls the task whenever a stream or the timer is ready, and
\* the clock runs; the peers are free to stay silent and open
TunnelFairness ==
    /\ \A d \in Dirs : WF_vars(CopyStep(d))
    /\ WF_vars(Tick)
    /\ WF_vars(IdleTimeout)

SpecTunnel == InitTunnel /\ [][NextTunnel]_vars /\ TunnelFairness

-----------------------------------------------------------------------------
(* Startup: Config::try_from builds crate::CONFIG from the command line.   *)
(* The credential table and the allowed networks are computed from the     *)
(* text of the --users and --allow-serving-network entries; the            *)
(* dispatcher then runs on the configuration that was built.               *)

\* the ASCII characters of codes 32 to 95, in code order
AsciiFrom32 ==
    <<
      " ", "!", "\"", "#", "$", "%", "&", "'", "(", ")", "*", "+", ",",
      "-", ".", "/", "0", "1", "2", "3", "4", "5", "6", "7", "8", "9", ":",
      ";", "<", "=", ">", "?", "@", "A", "B", "C", "D", "E", "F", "G", "H",
      "I", "J", "K", "L", "M", "N", "O", "P", "Q", "R", "S", "T", "U", "V",
      "W", "X", "Y", "Z", "[", "\\", "]", "^", "_" >>

\* the ASCII characters of codes 97 to 126, in code order
AsciiFrom97 ==
    <<
      "a", "b", "c", "d", "e", "f", "g", "h", "i", "j", "k", "l", "m", "n",
      "o", "p", "q", "r", "s", "t", "u", "v", "w", "x", "y", "z", "{", "|",
      "}", "~" >>

\* the byte of a character of a String (code 96 is not among the inputs)
byte_of(ch) ==
    IF \E i \in 1..Len(AsciiFrom32) : AsciiFrom32[i] = ch
    THEN 31 + CHOOSE i \in 1..Len(AsciiFrom32) : AsciiFrom32[i] = ch
    ELSE 96 + CHOOSE i \in 1..Len(AsciiFrom97) : AsciiFrom97[i] = ch

\* the alphabet of base64::engine::general_purpose::STANDARD
Base64Alphabet ==
    <<
      "A", "B", "C", "D", "E", "F", "G", "H", "I", "J", "K", "L", "M", "N",
      "O", "P", "Q", "R", "S", "T", "U", "V", "W", "X", "Y", "Z", "a", "b",
      "c", "d", "e", "f", "g", "h", "i", "j", "k", "l", "m", "n", "o", "p",
      "q", "r", "s", "t", "u", "v", "w", "x", "y", "z", "0", "1", "2", "3",
      "4", "5", "6", "7", "8", "9", "+", "/" >>

\* general_purpose::STANDARD.encode: three bytes give four characters of
\* six bits each, a last group of one or two bytes is padded with =
RECURSIVE base64(_)
base64(s) ==
    IF s = <<>> THEN <<>>
    ELSE LET b1 == byte_of(s[1])
             b2 == IF Len(s) >= 2 THEN byte_of(s[2]) ELSE 0
             b3 == IF Len(s) >= 3 THEN byte_of(s[3]) ELSE 0
             n  == b1 * 65536 + b2 * 256 + b3
         IN  << Base64Alphabet[(n \div 262144) + 1],
                Base64Alphabet[((n \div 4096) % 64) + 1],
                IF Len(s) >= 2 THEN Base64Alphabet[((n \div 64) % 64) + 1] ELSE "=",
                IF Len(s) >= 3 THEN Base64Alphabet[(n % 64) + 1] ELSE "=" >>
             \o (IF Len(s) > 3 THEN base64(SubSeq(s, 4, Len(s))) ELSE <<>>)

\* to_string / format!: the text as one String value
RECURSIVE to_string(_)
to_string(s) == IF s = <<>> THEN "" ELSE Head(s) \o to_string(Tail(s))

\* HashMap::insert: a later entry with the same key replaces the earlier
insert(table, k, v) ==
    [x \in (DOMAIN table) \union {k} |-> IF x = k THEN v ELSE table[x]]

\* the loop over param.users of Config::try_from
RECURSIVE collect_users(_, _)
collect_users(users, basic_auth) ==
    IF users = <<>> THEN basic_auth
    ELSE LET raw_user == Head(users)
             user     == split(raw_user, ":")
             username == user[1]
             password == IF Len(user) >= 2 THEN user[2] ELSE <<>>
         IN  collect_users(
                 Tail(users),
                 IF username # <<>> /\ password # <<>>
                 THEN insert(basic_auth, "Basic " \o to_string(base64(raw_user)),
                             to_string(username))
                 ELSE basic_auth)

\* one octet of Ipv4Addr::from_str: one to three digits, no leading zero
parse_octet(s) ==
    IF \/ Len(s) \notin 1..3
       \/ \E i \in 1..Len(s) : ~IsDigit(s[i])
       \/ (Len(s) > 1 /\ s[1] = "0")
       \/ digits_value(s, 0) > 255
    THEN None
    ELSE Some(digits_value(s, 0))

\* Ipv4Addr::from_str: four octets separated by dots
parse_ipv4(s) ==
    LET parts == split(s, ".")
    IN  IF Len(parts) # 4 \/ \E i \in 1..4 : parse_octet(parts[i]) = None
        THEN None
        ELSE Some(V4(Unwrap(parse_octet(parts[1])), Unwrap(parse_octet(parts[2])),
                     Unwrap(parse_octet(parts[3])), Unwrap(parse_octet(parts[4]))))

\* ipnetwork's parse_prefix: a u8 that is at most max
parse_prefix(s, max) ==
    LET p == parse_u16(s)
    IN  IF IsSome(p) /\ Unwrap(p) <= max THEN p ELSE None

\* IpNetwork::from_str on text without ':' (an IPv4 network): an address,
\* then optionally '/' and a prefix length; a bare address is a /32.  The
\* prefix written as a dotted netmask is not among the inputs.
from_str(s) ==
    LET parts  == split(s, "/")
        addr   == parse_ipv4(parts[1])
        prefix == IF Len(parts) = 2 THEN parse_prefix(parts[2], 32) ELSE Some(32)
    IN  IF Len(parts) > 2 \/ addr = None \/ prefix = None THEN None
        ELSE Some(Net(Unwrap(addr), Unwrap(prefix)))

\* the loop over param.allow_serving_network of Config::try_from: an entry
\* that does not parse is logged with warn! and left out
RECURSIVE collect_networks(_)
collect_networks(entries) ==
    IF entries = <<>> THEN <<>>
    ELSE (IF IsSome(from_str(Head(entries)))
          THEN <<Unwrap(from_str(Head(entries)))>> ELSE <<>>)
         \o collect_networks(Tail(entries))

\* parse_reverse_proxy_config: what it returns for the config file and the
\* upstream URLs of the command line is given with the command line
parse_reverse_proxy_config(p) == p.reverse_proxy

\* impl TryFrom<Param> for Config
try_from(p) ==
    LET basic_auth           == collect_users(p.users, [k \in {} |-> ""])
        reverse_proxy_config == parse_reverse_proxy_config(p)
        prohibit_serving     == p.prohibit_serving
        allowed_networks     ==
            IF ~prohibit_serving /\ p.allow_serving_network # <<>>
            THEN collect_networks(p.allow_serving_network)
            ELSE <<>>
    IN  IF ~reverse_proxy_config.ok THEN IoErr(reverse_proxy_config.err)
        ELSE IoOk([basic_auth           |-> basic_auth,
                   never_ask_for_auth   |-> p.never_ask_for_auth,
                   serving_control      |->
                       [prohibit_serving |-> prohibit_serving,
                        allowed_networks |-> allowed_networks],
                   over_tls             |-> p.over_tls,
                   reverse_proxy_config |-> reverse_proxy_config.val])

\* --users entries: well formed, without a colon, without a user, without
\* a password, with a second colon, and a user called unknown
UserAlice == <<"a", "l", "i", "c", "e", ":", "s", "e", "c", "r", "e", "t">>

UserNoColon == <<"a", "l", "i", "c", "e">>

UserNoName == <<":", "s", "e", "c", "r", "e", "t">>

UserNoPassword == <<"b", "o", "b", ":">>

UserTwoColons == <<"c", "a", "r", "o", "l", ":", "p", "w", ":", "x">>

UserUnknown == <<"u", "n", "k", "n", "o", "w", "n", ":", "p", "w">>

UserLists ==
    { <<>>, <<UserAlice>>, <<UserNoColon>>, <<UserNoName>>,
      <<UserAlice, UserNoPassword>>, <<UserTwoColons>>, <<UserUnknown>>,
      <<UserUnknown, UserAlice>> }

\* --allow-serving-network entries: a network, a bare address, a prefix
\* that is too long, an address of three octets, and a word
CidrTen == <<"1", "0", ".", "0", ".", "0", ".", "0", "/", "8">>

CidrHost == <<"1", "9", "2", ".", "1", "6", "8", ".", "1", ".", "5">>

CidrLongPrefix == <<"1", "0", ".", "0", ".", "0", ".", "0", "/", "3", "3">>

CidrShortAddress == <<"1", "0", ".", "0", ".", "0", "/", "8">>

CidrWord == <<"l", "a", "n">>

CidrLists ==
    { <<>>, <<CidrTen>>, <<CidrHost>>, <<CidrLongPrefix>>, <<CidrWord>>,
      <<CidrTen, CidrShortAddress>>, <<CidrShortAddress, CidrWord>> }

Params ==
    { [users                 |-> users,
       never_ask_for_auth    |-> never_ask,
       prohibit_serving      |-> prohibit,
       allow_serving_network |-> networks,
       over_tls              |-> FALSE,
       reverse_proxy         |-> parsed] :
        users \in UserLists, never_ask \in BOOLEAN, prohibit \in BOOLEAN,
        networks \in CidrLists,
        parsed \in {IoOk(NoLocations), IoErr("reverse proxy config")} }

\* the Proxy-Authorization values of alice:secret, unknown:pw and carol:pw:x
UnknownAuth == "Basic dW5rbm93bjpwdw=="

CarolAuth == "Basic Y2Fyb2w6cHc6eA=="

StartupAuths == {None, Some(GoodAuth), Some(UnknownAuth), Some(CarolAuth)}

\* a forward-proxy GET, a CONNECT and a request for a local file
StartupRequests ==
    { Request("GET", "HTTP/1.1", Uri(Some("http"), Some(HostB), None, PathX, None),
              Headers(Some(HostB), a, None)) : a \in StartupAuths }
    \union
    { Request("CONNECT", "HTTP/1.1", Uri(None, Some(HostB), Some(443), <<>>, None),
              Headers(Some(<<"b", ":", "4", "4", "3">>), a, None)) :
        a \in StartupAuths }
    \union
    { Request("GET", "HTTP/1.1", Uri(None, None, None, PathX, None),
              Headers(Some(HostB), None, None)) }

StartupClients == { V4(10, 1, 2, 3), V4(192, 168, 1, 5) }

\* main: load_config, Config::try_from(param)?; a failure ends the process
\* before CONFIG exists
InitStartup ==
    /\ param \in Params
    /\ loaded = try_from(param)
    /\ cfg = loaded.val
    /\ local_ip = LongLocalIp
    /\ Idle
    /\ RewriterUnused
    /\ MatcherUnused
    /\ ResolverUnused
    /\ TunnelUnused
    /\ PoolUnused

\* handle on a request, under the configuration that was loaded
HandleStarted ==
    /\ loaded.ok
    /\ req = None
    /\ \E r \in StartupRequests, addr \in StartupClients :
           Deliver(r, addr, handle(cfg, local_ip, r, addr,
                                   IoOk(Response(200, <<>>, "ok")), 1))

NextStartup == HandleStarted \/ Finish

SpecStartup == InitStartup /\ [][NextStartup]_vars

-----------------------------------------------------------------------------
(* Tunnel tasks side by side.  Every CONNECT that tunnel_proxy accepts      *)
(* spawns a detached task (tokio::task::spawn) whose async move block owns  *)
(* the request, the client address, the user name and the target address;   *)
(* the task awaits the upgrade of its own request, opens its own TcpStream  *)
(* and copies between the two.  handle goes on serving other requests.      *)
(* Here a direction of the copy forwards a byte in one step (the read and   *)
(* the write of it), and reads EOF, flushes and shuts down in one step.     *)

\* how many tunnel tasks are spawned
MaxTunnels == 2

\* how many bytes each peer of a tunnel sends
PoolBytes == 1

\* the CONNECT requests that arrive, each from its own client
PoolConnects ==
    { [req  |-> Request("CONNECT", "HTTP/1.1",
                        Uri(None, Some(HostA), Some(443), <<>>, None),
                        Headers(Some(<<"a", ":", "4", "4", "3">>),
                                Some(GoodAuth), None)),
       addr |-> V6(<<0, 0, 0, 0, 0, 65535, 2561, 515>>)],
      [req  |-> Request("CONNECT", "HTTP/1.1",
                        Uri(None, Some(HostB), Some(80), <<>>, None),
                        Headers(Some(<<"b", ":", "8", "0">>), None, None)),
       addr |-> V4(192, 168, 1, 5)] }

\* a request that is not a CONNECT, handled while tunnels run
PoolHttpRequests ==
    { Request("GET", "HTTP/1.1", Uri(Some("http"), Some(HostB), None, PathX, None),
              Headers(Some(HostB), Some(GoodAuth), None)) }

\* a direction of a task's copy before its first read: how many bytes its
\* source has sent, whether the source has closed, whether it is done
NewPoolDirection == [sent |-> 0, closed |-> FALSE, done |-> FALSE]

\* the task tunnel_proxy spawned for request r from addr: what the async
\* move block captured, and where the task is
NewTask(captured, r, addr) ==
    [created_by   |-> [req |-> r, addr |-> addr],
     captured     |-> [client   |-> captured.client,
                       target   |-> captured.target,
                       username |-> captured.username],
     pc           |-> captured.pc,
     log          |-> "",
     access_label |-> None,
     copy         |-> <<>>]

\* what the two peers of a tunnel have received: a the client, b the target
NoBytes == [a |-> <<>>, b |-> <<>>]

\* the peer a direction writes to
Destination(d) == IF d = "a_to_b" THEN "b" ELSE "a"

\* the n-th byte the source of direction d of tunnel i sends
PoolByte(i, d, n) == <<i, d, n>>

\* the streams task i copies between: the upgraded connection of its own
\* request and the TcpStream it connected itself
streams_of(i) == i

task_exit_aborts_all(ts, i, why) ==
    [j \in DOMAIN ts |-> [ts[j] EXCEPT !.pc = "done", !.log = why, !.copy = <<>>]]

\* the async block of task i ends, logging why; its streams are dropped
task_exit(ts, i, why) ==
    [ts EXCEPT ![i].pc = "done", ![i].log = why, ![i].copy = <<>>]

\* task i moves to pc, logging what happened
task_goes(ts, i, pc, what) ==
    IF pc = "done" THEN task_exit(ts, i, what)
    ELSE [ts EXCEPT ![i].pc = pc, ![i].log = what]

\* how many bytes direction d of tunnel i has forwarded
Forwarded(i, d) == Len(wire[streams_of(i)][Destination(d)])

InitPool ==
    /\ cfg \in {c \in AuthConfigs : ~c.never_ask_for_auth}
    /\ local_ip = LongLocalIp
    /\ Idle
    /\ RewriterUnused
    /\ MatcherUnused
    /\ ResolverUnused
    /\ TunnelUnused
    /\ StartupUnused
    /\ PoolUnused

\* handle on a CONNECT: tunnel_proxy spawns the task and handle returns
PoolConnect ==
    /\ Len(tunnels) < MaxTunnels
    /\ \E c \in PoolConnects :
           LET d == handle(cfg, local_ip, c.req, c.addr, IoErr("unused"), 1)
           IN  /\ tunnels' = tunnels \o
                      [k \in 1..Len(d.spawned) |-> NewTask(d.spawned[k], c.req, c.addr)]
               /\ wire' = wire \o [k \in 1..Len(d.spawned) |-> NoBytes]
    /\ UNCHANGED <<startup_vars, handle_vars, component_vars, tunnel_vars>>

\* handle on a request that is not a CONNECT
PoolHandleHttp ==
    /\ req = None
    /\ \E r \in PoolHttpRequests :
           Returned(r, V4(10, 1, 2, 3),
                    handle(cfg, local_ip, r, V4(10, 1, 2, 3),
                           IoOk(Response(200, <<>>, "ok")), 1))
    /\ UNCHANGED <<startup_vars, pool_vars, component_vars, tunnel_vars>>

\* hyper::upgrade::on(req) of task i resolves; on Ok the task builds its
\* AccessLabel from what it captured
PoolUpgrade(i) ==
    /\ tunnels[i].pc = "upgrading"
    /\ \E upgraded \in BOOLEAN :
           tunnels' =
               [task_goes(tunnels, i, on_upgrade(upgraded).pc, on_upgrade(upgraded).log)
                   EXCEPT ![i].access_label =
                       IF upgraded THEN Some(tunnels[i].captured) ELSE None]
    /\ UNCHANGED <<startup_vars, handle_vars, component_vars, tunnel_vars, wire>>

\* TcpStream::connect of task i resolves; on Ok fn tunnel starts the copy
PoolTcpConnect(i) ==
    /\ tunnels[i].pc = "connecting"
    /\ \E connected \in BOOLEAN :
           tunnels' =
               IF connected
               THEN [task_goes(tunnels, i, on_connect(TRUE).pc, on_connect(TRUE).log)
                        EXCEPT ![i].copy = [d \in Dirs |-> NewPoolDirection]]
               ELSE task_goes(tunnels, i, on_connect(FALSE).pc, on_connect(FALSE).log)
    /\ UNCHANGED <<startup_vars, handle_vars, component_vars, tunnel_vars, wire>>

\* the source of direction d of tunnel i sends its next byte
PoolPeerSend(i, d) ==
    /\ tunnels[i].pc = "copying"
    /\ ~tunnels[i].copy[d].closed
    /\ tunnels[i].copy[d].sent < PoolBytes
    /\ tunnels' = [tunnels EXCEPT ![i].copy[d].sent = @ + 1]
    /\ UNCHANGED <<startup_vars, handle_vars, component_vars, tunnel_vars, wire>>

\* the source of direction d of tunnel i closes its write half
PoolPeerClose(i, d) ==
    /\ tunnels[i].pc = "copying"
    /\ ~tunnels[i].copy[d].closed
    /\ tunnels' = [tunnels EXCEPT ![i].copy[d].closed = TRUE]
    /\ UNCHANGED <<startup_vars, handle_vars, component_vars, tunnel_vars, wire>>

\* direction d of the copy of task i has a byte to forward
can_forward(i, d) ==
    /\ tunnels[i].pc = "copying"
    /\ ~tunnels[i].copy[d].done
    /\ Forwarded(i, d) < tunnels[i].copy[d].sent

\* direction d of the copy of task i reads a byte from its source and
\* writes it to its destination
PoolForward(i, d) ==
    /\ can_forward(i, d)
    /\ wire' = [wire EXCEPT ![streams_of(i)][Destination(d)] =
                    Append(@, PoolByte(i, d, Forwarded(i, d) + 1))]
    /\ UNCHANGED <<startup_vars, handle_vars, component_vars, tunnel_vars, tunnels>>

\* direction d of the copy of task i reads EOF, flushes and shuts down its
\* destination; copy_bidirectional returns Ok when both directions are done
PoolShutdown(i, d) ==
    /\ tunnels[i].pc = "copying"
    /\ ~tunnels[i].copy[d].done
    /\ tunnels[i].copy[d].closed
    /\ Forwarded(i, d) = tunnels[i].copy[d].sent
    /\ tunnels' = IF tunnels[i].copy[Other(d)].done
                  THEN task_exit(tunnels, i, "tunnel closed")
                  ELSE [tunnels EXCEPT ![i].copy[d].done = TRUE]
    /\ UNCHANGED <<startup_vars, handle_vars, component_vars, tunnel_vars, wire>>

\* a read or write of a stream of task i fails: copy_bidirectional(..).await?
PoolCopyFails(i) ==
    /\ tunnels[i].pc = "copying"
    /\ tunnels' = task_exit(tunnels, i, "tunnel io error")
    /\ UNCHANGED <<startup_vars, handle_vars, component_vars, tunnel_vars, wire>>

\* the copy of task i waits in a read, write or shutdown of its target
pool_target_pending(i) ==
    \/ /\ ~tunnels[i].copy["b_to_a"].done
       /\ ~tunnels[i].copy["b_to_a"].closed
       /\ Forwarded(i, "b_to_a") = tunnels[i].copy["b_to_a"].sent
    \/ /\ ~tunnels[i].copy["a_to_b"].done
       /\ \/ Forwarded(i, "a_to_b") < tunnels[i].copy["a_to_b"].sent
          \/ tunnels[i].copy["a_to_b"].closed

\* TimeoutIO of task i fails the pending operation after IDLE_TIMEOUT
PoolIdleTimeout(i) ==
    /\ tunnels[i].pc = "copying"
    /\ pool_target_pending(i)
    /\ tunnels' = task_exit(tunnels, i, "tunnel io error: timed out")
    /\ UNCHANGED <<startup_vars, handle_vars, component_vars, tunnel_vars, wire>>

NextPool ==
    \/ PoolConnect
    \/ PoolHandleHttp
    \/ Finish
    \/ \E i \in DOMAIN tunnels :
           \/ PoolUpgrade(i)
           \/ PoolTcpConnect(i)
           \/ PoolCopyFails(i)
           \/ PoolIdleTimeout(i)
           \/ \E d \in Dirs :
                  \/ PoolPeerSend(i, d)
                  \/ PoolPeerClose(i, d)
                  \/ PoolForward(i, d)
                  \/ PoolShutdown(i, d)

SpecPool == InitPool /\ [][NextPool]_vars

-----------------------------------------------------------------------------
(* Vocabulary of the properties: the latest call of handle *)

Handled == req # None

TheReq == Unwrap(req)

TheAddr == Unwrap(client_socket_addr)

TheOutcome == Unwrap(outcome)

TheResolution ==
    extract_scheme_host_port(TheReq, IF cfg.over_tls THEN "https" ELSE "http")

\* the path of the request has as prefix the location of some rule of the
\* bucket selected for its request domain
RuleMatches ==
    /\ TheReq.method # "CONNECT"
    /\ TheResolution.ok
    /\ LET bucket == select_locations(cfg.reverse_proxy_config,
                                      TheResolution.val.domain)
       IN  /\ IsSome(bucket)
           /\ \E i \in 1..Len(Unwrap(bucket)) :
                  starts_with(uri_path(TheReq.uri), Unwrap(bucket)[i].location)

\* the LocationMatcher ran on the request and found no rule
NoRuleFound ==
    TheReq.method # "CONNECT" /\ TheResolution.ok /\ ~RuleMatches

\* the request carries a Proxy-Authorization value that is a key of the table
HasValidCredentials ==
    /\ IsSome(TheReq.headers.proxy_authorization)
    /\ Unwrap(TheReq.headers.proxy_authorization) \in DOMAIN cfg.basic_auth

\* the AuthGate lets the request pass
PassesAuthGate == DOMAIN cfg.basic_auth = {} \/ HasValidCredentials

-----------------------------------------------------------------------------
(* C1: a non-CONNECT request whose path has as prefix the location of a    *)
(* rule of the bucket selected for its request domain is handed to the     *)
(* reverse-proxy handler exactly once, the handler's result is returned    *)
(* (its response as Return), and neither the AuthGate, the ServingGate,    *)
(* the static-file responder nor a proxy engine is used, whatever the      *)
(* credential table and the serving flags are.                             *)
C1_ReverseProxyFirst ==
    (Handled /\ RuleMatches) =>
        /\ calls.reverse = 1
        /\ calls.auth = 0 /\ calls.gate = 0 /\ calls.serve = 0
        /\ calls.tunnel = 0 /\ calls.simple = 0 /\ calls.upstream = 0
        /\ IsSome(replied)
        /\ TheOutcome = IF Unwrap(replied).ok THEN Return(Unwrap(replied).val)
                        ELSE Err(Unwrap(replied).err)

\* a matching request without credentials is answered by the reverse proxy
\* although credentials are configured and serving is prohibited
C1_Witness ==
    /\ Handled /\ RuleMatches
    /\ DOMAIN cfg.basic_auth # {}
    /\ TheReq.headers.proxy_authorization = None
    /\ cfg.serving_control.prohibit_serving
    /\ cfg.never_ask_for_auth
    /\ TheOutcome.kind = "Return"

(* C2: with a non-empty credential table, a tunnel task is spawned or a    *)
(* request is forwarded upstream by simple_proxy only for a request whose  *)
(* Proxy-Authorization value is, verbatim, a key of the table.             *)
C2_ProxyNeedsCredentials ==
    (Handled /\ DOMAIN cfg.basic_auth # {}) =>
        ((spawned # <<>> \/ calls.upstream > 0 \/ calls.tunnel > 0 \/ calls.simple > 0)
            => HasValidCredentials)

C2_Witness ==
    /\ Handled
    /\ DOMAIN cfg.basic_auth # {}
    /\ spawned # <<>>
    /\ HasValidCredentials

(* C3: a request that reaches the proxy stage and fails the AuthGate gets, *)
(* when never_ask_for_auth is set, no response at all (a permission-denied *)
(* error), and otherwise Return of a 407 response with the header          *)
(* Proxy-Authenticate: Basic realm="are you kidding me" and body           *)
(* "auth need".                                                            *)
C3_AuthFailure ==
    (Handled /\ calls.auth = 1 /\ ~PassesAuthGate) =>
        IF cfg.never_ask_for_auth
        THEN /\ TheOutcome.kind = "Err"
             /\ TheOutcome.err = "PermissionDenied"
             /\ TheOutcome.resp = None
        ELSE /\ TheOutcome.kind = "Return"
             /\ Unwrap(TheOutcome.resp) =
                    [status  |-> 407,
                     headers |-> << <<"proxy-authenticate",
                                      "Basic realm=\"are you kidding me\"">> >>,
                     body    |-> "auth need"]

C3_Witness ==
    /\ Handled /\ calls.auth = 1 /\ ~PassesAuthGate
    /\ cfg.never_ask_for_auth
    /\ TheOutcome.kind = "Err"

\* the response is 200, empty, and carries N Server headers, each the local
\* IP, with 1 <= N < 2048 / len(local-ip)
IsTunnelResponse(resp) ==
    /\ resp.status = 200
    /\ resp.body = ""
    /\ Len(resp.headers) >= 1
    /\ Len(resp.headers) < 2048 \div Len(local_ip)
    /\ \A i \in 1..Len(resp.headers) : resp.headers[i] = <<"server", local_ip>>

(* C4, as stated: every CONNECT whose URI authority is parseable as        *)
(* host:port is answered 200 with an empty body and N identical Server     *)
(* headers holding the local IP, 1 <= N < 2048 / len(local-ip).            *)
C4_AsStated ==
    (Handled /\ TheReq.method = "CONNECT" /\ IsSome(host_addr(TheReq.uri))) =>
        /\ TheOutcome.kind = "Return"
        /\ IsTunnelResponse(Unwrap(TheOutcome.resp))

(* C4, amended: every CONNECT that passes the AuthGate and whose URI       *)
(* authority is parseable as host:port is answered 200 with an empty body  *)
(* and N identical Server headers holding the local IP,                    *)
(* 1 <= N < 2048 / len(local-ip).                                          *)
C4_AuthorizedConnect ==
    (/\ Handled /\ TheReq.method = "CONNECT" /\ IsSome(host_addr(TheReq.uri))
     /\ PassesAuthGate) =>
        /\ TheOutcome.kind = "Return"
        /\ IsTunnelResponse(Unwrap(TheOutcome.resp))

\* the longest padding for the shortest local address, credentials checked
C4_Witness ==
    /\ Handled /\ TheReq.method = "CONNECT" /\ IsSome(host_addr(TheReq.uri))
    /\ HasValidCredentials
    /\ local_ip = "0.0.0.0"
    /\ TheOutcome.kind = "Return"
    /\ Len(Unwrap(TheOutcome.resp).headers) = 291

(* C5, as stated: every CONNECT whose URI authority is not parseable as    *)
(* host:port is answered 400 with body "CONNECT must be to a socket        *)
(* address", spawns no tunnel task and attempts no upstream connection.    *)
C5_AsStated ==
    (Handled /\ TheReq.method = "CONNECT" /\ host_addr(TheReq.uri) = None) =>
        /\ TheOutcome.kind = "Return"
        /\ Unwrap(TheOutcome.resp).status = 400
        /\ Unwrap(TheOutcome.resp).body = "CONNECT must be to a socket address"
        /\ spawned = <<>>
        /\ calls.upstream = 0

(* C5, amended: a CONNECT whose URI authority is not parseable as          *)
(* host:port never spawns a tunnel task and never causes an upstream       *)
(* connection, and when it passes the AuthGate it is answered 400 with     *)
(* body "CONNECT must be to a socket address".                             *)
C5_BadConnectTarget ==
    (Handled /\ TheReq.method = "CONNECT" /\ host_addr(TheReq.uri) = None) =>
        /\ spawned = <<>>
        /\ calls.upstream = 0
        /\ PassesAuthGate =>
               /\ TheOutcome.kind = "Return"
               /\ Unwrap(TheOutcome.resp).status = 400
               /\ Unwrap(TheOutcome.resp).body = "CONNECT must be to a socket address"

C5_Witness ==
    /\ Handled /\ TheReq.method = "CONNECT" /\ host_addr(TheReq.uri) = None
    /\ HasValidCredentials
    /\ calls.tunnel = 1
    /\ TheOutcome.kind = "Return"
    /\ Unwrap(TheOutcome.resp).status = 400

(* C6, as stated: every HTTP/2 request that matches no reverse-proxy rule  *)
(* is dropped when prohibit_serving is true, and the static-file responder *)
(* is not invoked.                                                         *)
C6_AsStated ==
    (/\ Handled /\ TheReq.version = "HTTP/2" /\ ~RuleMatches
     /\ cfg.serving_control.prohibit_serving) =>
        /\ TheOutcome = Drop
        /\ calls.serve = 0

(* C6, amended: every HTTP/2 request other than a CONNECT that the         *)
(* HostResolver accepts (its URI carries an authority) and that matches no *)
(* reverse-proxy rule is dropped when prohibit_serving is true, and the    *)
(* static-file responder is not invoked.                                   *)
C6_ProhibitServingDrops ==
    (/\ Handled /\ TheReq.version = "HTTP/2" /\ NoRuleFound
     /\ cfg.serving_control.prohibit_serving) =>
        /\ TheOutcome = Drop
        /\ calls.serve = 0

\* an HTTP/2 request with valid credentials is dropped, not proxied
C6_Witness ==
    /\ Handled /\ TheReq.version = "HTTP/2" /\ NoRuleFound
    /\ cfg.serving_control.prohibit_serving
    /\ cfg.serving_control.allowed_networks # <<>>
    /\ HasValidCredentials
    /\ calls.gate = 1
    /\ TheOutcome = Drop

\* the client IP in canonical form is in one of the configured networks
ClientInAllowedNetworks ==
    \E i \in 1..Len(cfg.serving_control.allowed_networks) :
        contains(cfg.serving_control.allowed_networks[i], to_canonical(TheAddr))

(* C7: for a request that reaches the static-file branch with              *)
(* prohibit_serving false, the static-file responder is invoked iff        *)
(* allowed_networks is empty or the canonical client IP is in one of the   *)
(* configured CIDRs; otherwise the outcome is Drop and the responder is    *)
(* not invoked.                                                            *)
C7_ServingGate ==
    (Handled /\ calls.gate = 1 /\ ~cfg.serving_control.prohibit_serving) =>
        /\ calls.serve = 1 <=>
               (cfg.serving_control.allowed_networks = <<>> \/ ClientInAllowedNetworks)
        /\ calls.serve <= 1
        /\ calls.serve = 0 => TheOutcome = Drop

\* an IPv4-mapped IPv6 client is served because its IPv4 form is allowed
C7_Witness ==
    /\ Handled /\ calls.gate = 1 /\ ~cfg.serving_control.prohibit_serving
    /\ cfg.serving_control.allowed_networks # <<>>
    /\ TheAddr.v = 6
    /\ calls.serve = 1

(* C8, as stated: for a non-CONNECT request with no matching              *)
(* reverse-proxy rule, the ServingGate and the static-file responder are   *)
(* used iff the version is HTTP/2 or the URI has no host; an HTTP/1.1      *)
(* request whose URI carries a host never reaches the static-file          *)
(* responder and goes to the proxy stage (AuthGate).                       *)
C8_AsStated ==
    (Handled /\ TheReq.method # "CONNECT" /\ ~RuleMatches) =>
        LET serving == TheReq.version = "HTTP/2" \/ TheReq.uri.host = None
        IN  /\ calls.gate = 1 <=> serving
            /\ calls.serve = 1 => serving
            /\ ~serving => (calls.gate = 0 /\ calls.serve = 0 /\ calls.auth = 1)

(* C8, amended: for a non-CONNECT request that the HostResolver accepts    *)
(* and that has no matching reverse-proxy rule, the ServingGate and the    *)
(* static-file responder are used iff the version is HTTP/2 or the URI has *)
(* no host; an HTTP/1.1 request whose URI carries a host never reaches the *)
(* static-file responder and goes to the proxy stage (AuthGate).           *)
C8_ServingOrProxy ==
    (Handled /\ NoRuleFound) =>
        LET serving == TheReq.version = "HTTP/2" \/ TheReq.uri.host = None
        IN  /\ calls.gate = 1 <=> serving
            /\ calls.serve = 1 => serving
            /\ ~serving => (calls.gate = 0 /\ calls.serve = 0 /\ calls.auth = 1)

\* an absolute-form HTTP/1.1 request without a rule is judged by the AuthGate
C8_Witness ==
    /\ Handled /\ NoRuleFound
    /\ TheReq.version = "HTTP/1.1"
    /\ IsSome(TheReq.uri.host)
    /\ ~cfg.serving_control.prohibit_serving
    /\ calls.auth = 1
    /\ calls.serve = 0

(* C9: the outcome is Continue(request) iff the static-file responder was  *)
(* invoked and returned status 404, and then the request re-emitted is the *)
(* original request unmodified; for any other status of the responder the  *)
(* outcome is Return of that response.                                     *)
C9_ContinueOn404 ==
    Handled =>
        LET served == calls.serve = 1 /\ IsSome(replied) /\ Unwrap(replied).ok
        IN  /\ TheOutcome.kind = "Continue" <=>
                   (served /\ Unwrap(replied).val.status = 404)
            /\ TheOutcome.kind = "Continue" => TheOutcome.req = req
            /\ (served /\ Unwrap(replied).val.status # 404) =>
                   TheOutcome = Return(Unwrap(replied).val)

C9_Witness ==
    /\ Handled
    /\ calls.serve = 1
    /\ TheOutcome.kind = "Continue"
    /\ IsSome(TheReq.headers.proxy_authorization)

\* the default port of a scheme: 80 for http/ws, 443 for https/wss
DefaultPort(scheme) == IF scheme \in {"https", "wss"} THEN 443 ELSE 80

(* C10: the request simple_proxy sends upstream has neither a              *)
(* Proxy-Authorization nor a Proxy-Connection header, its URI is           *)
(* origin-form (the path and query of the original, "/" for an empty       *)
(* path), and its Host header is the URI host when the URI port is absent  *)
(* or the default of the scheme, and host:port otherwise.                  *)
C10_RewrittenRequest ==
    (Handled /\ calls.upstream > 0) =>
        /\ IsSome(sent)
        /\ LET out  == Unwrap(sent)
               uri  == TheReq.uri
               host == Unwrap(uri.host)
           IN  /\ out.headers.proxy_authorization = None
               /\ out.headers.proxy_connection = None
               /\ out.uri.scheme = None /\ out.uri.host = None /\ out.uri.port = None
               /\ uri_path(out.uri) = IF uri.path = <<>> THEN <<"/">> ELSE uri.path
               /\ out.uri.query = uri.query
               /\ out.method = TheReq.method
               /\ IF uri.port = None
                     \/ Unwrap(uri.port) = DefaultPort(Unwrap(uri.scheme))
                  THEN out.headers.host = Some(host)
                  ELSE out.headers.host =
                           Some(host \o <<":">> \o to_decimal(Unwrap(uri.port)))

\* a request with both proxy headers and a non-default port was forwarded
C10_Witness ==
    /\ Handled /\ calls.upstream > 0
    /\ IsSome(TheReq.headers.proxy_authorization)
    /\ IsSome(TheReq.headers.proxy_connection)
    /\ TheReq.uri.port = Some(8080)
    /\ Unwrap(sent).headers.host = Some(<<"a", ":", "8", "0", "8", "0">>)

(* C11, as stated: for every request on which mod_http1_proxy_req          *)
(* succeeds, a second application to the result succeeds and yields the    *)
(* same request as the first.                                              *)
C11_AsStated ==
    (Len(rw_results) >= 2 /\ rw_results[1] = "Ok") =>
        /\ rw_results[2] = "Ok"
        /\ rw_trace[3] = rw_trace[2]

(* C11, amended: mod_http1_proxy_req succeeds iff the URI carries a host;  *)
(* for every request on which it succeeds, a second application to the     *)
(* result fails with an invalid-data error, because the result's URI is    *)
(* origin-form and carries no host, and leaves the request as the first    *)
(* application made it (same URI, same headers).                           *)
C11_SecondApplicationFails ==
    /\ Len(rw_results) >= 1 =>
           (rw_results[1] = "Ok" <=> IsSome(rw_trace[1].uri.host))
    /\ (Len(rw_results) >= 2 /\ rw_results[1] = "Ok") =>
           /\ rw_results[2] = "InvalidData"
           /\ rw_trace[3] = rw_trace[2]

\* a request with proxy headers and a non-default port, rewritten twice
C11_Witness ==
    /\ Len(rw_results) = 2
    /\ rw_results[1] = "Ok"
    /\ rw_results[2] = "InvalidData"
    /\ IsSome(rw_trace[1].headers.proxy_connection)
    /\ rw_trace[1].uri.port = Some(8080)
    /\ rw_trace[2] # rw_trace[1]
    /\ rw_trace[3] = rw_trace[2]

\* the rule at position i of a bucket matches the path looked up
MatchesAt(rules, i) == starts_with(lm_path, rules[i].location)

BucketMatches(host) ==
    /\ host \in DOMAIN cfg.reverse_proxy_config
    /\ \E i \in 1..Len(cfg.reverse_proxy_config[host]) :
           starts_with(uri_path(TheReq.uri), cfg.reverse_proxy_config[host][i].location)

\* the rule selected is a rule of the bucket keyed by host
MatchedIn(host) ==
    /\ host \in DOMAIN cfg.reverse_proxy_config
    /\ IsSome(matched)
    /\ \E i \in 1..Len(cfg.reverse_proxy_config[host]) :
           cfg.reverse_proxy_config[host][i] = Unwrap(matched)

(* C13: the DEFAULT_HOST bucket is consulted iff the reverse-proxy config  *)
(* has no bucket keyed by the request domain: when a bucket for the        *)
(* request domain exists, the request is reverse-proxied iff a rule of     *)
(* that bucket matches the path (DEFAULT_HOST rules are not tried), and    *)
(* when no such bucket exists the request is reverse-proxied iff a         *)
(* DEFAULT_HOST rule matches, by a DEFAULT_HOST rule.                      *)
C13_DefaultHostFallback ==
    (Handled /\ TheReq.method # "CONNECT" /\ TheResolution.ok) =>
        LET domain == TheResolution.val.domain
        IN  /\ calls.reverse = 1 <=> IsSome(matched)
            /\ IF domain \in DOMAIN cfg.reverse_proxy_config
               THEN /\ IsSome(matched) <=> BucketMatches(domain)
                    /\ IsSome(matched) => MatchedIn(domain)
               ELSE /\ IsSome(matched) <=> BucketMatches(DEFAULT_HOST)
                    /\ IsSome(matched) => MatchedIn(DEFAULT_HOST)

\* the bucket of host "a" has no rule for "/", the DEFAULT_HOST bucket has
\* one, and the request for "/" on host "a" is not reverse-proxied
C13_Witness ==
    /\ Handled /\ TheReq.method # "CONNECT" /\ TheResolution.ok
    /\ TheResolution.val.domain \in DOMAIN cfg.reverse_proxy_config
    /\ ~BucketMatches(TheResolution.val.domain)
    /\ BucketMatches(DEFAULT_HOST)
    /\ calls.matcher = 1
    /\ calls.reverse = 0
    /\ matched = None

\* the text of the Host header before its first ':'
HostSegment(r) == split(Unwrap(r.headers.host), ":")[1]

\* the Host header has text after its first ':' that is no u16
PortSegmentUnparsable(r) ==
    /\ Len(split(Unwrap(r.headers.host), ":")) >= 2
    /\ parse_u16(split(Unwrap(r.headers.host), ":")[2]) = None

(* C14, as stated: for every HTTP/1.1 non-CONNECT request the HostResolver *)
(* either fails or returns a SchemeHostPort whose host is non-empty and    *)
(* whose port is absent or in 1..65535; it fails when the Host header is   *)
(* absent, when the host segment before the first ':' is empty, and when   *)
(* the port segment does not parse as u16; on success the RequestDomain is *)
(* the host segment without port.                                          *)
C14_AsStated ==
    (IsSome(hr_result) /\ Unwrap(hr_req).version = "HTTP/1.1") =>
        LET r   == Unwrap(hr_req)
            res == Unwrap(hr_result)
        IN  /\ res.ok =>
                   /\ res.val.shp.host # <<>>
                   /\ \/ res.val.shp.port = None
                      \/ Unwrap(res.val.shp.port) \in 1..U16_MAX
                   /\ res.val.domain = HostSegment(r)
            /\ r.headers.host = None => ~res.ok
            /\ (IsSome(r.headers.host) /\ HostSegment(r) = <<>>) => ~res.ok
            /\ (IsSome(r.headers.host) /\ PortSegmentUnparsable(r)) => ~res.ok

\* how many of the reverse-proxy handler, the static-file responder, the
\* TunnelEngine and the SimpleProxyEngine the call invoked
RolesInvoked == calls.reverse + calls.serve + calls.tunnel + calls.simple

(* C15, as stated: for each call of ProxyHandler::handle exactly one of    *)
(* the reverse-proxy handler, the static-file responder, the TunnelEngine  *)
(* and the SimpleProxyEngine is invoked, and never two of them.            *)
C15_AsStated == Handled => RolesInvoked = 1

(* C15, amended: for each call of ProxyHandler::handle at most one of the  *)
(* reverse-proxy handler, the static-file responder, the TunnelEngine and  *)
(* the SimpleProxyEngine is invoked, and at most once; none is invoked     *)
(* exactly when the HostResolver rejects the request, the ServingGate      *)
(* drops it, or the AuthGate rejects it.                                   *)
C15_AtMostOneRole ==
    Handled =>
        /\ RolesInvoked <= 1
        /\ RolesInvoked = 0 <=>
               \/ (TheReq.method # "CONNECT" /\ ~TheResolution.ok)
               \/ (calls.gate = 1 /\ TheOutcome = Drop)
               \/ (calls.auth = 1 /\ ~PassesAuthGate)

\* a CONNECT without valid credentials reaches no engine
C15_Witness ==
    /\ Handled
    /\ TheReq.method = "CONNECT"
    /\ calls.auth = 1 /\ ~PassesAuthGate
    /\ RolesInvoked = 0
    /\ spawned = <<>>

-----------------------------------------------------------------------------
(* Vocabulary of the properties: the tunnel task *)

\* the position of the first entry of events that is e, 0 when there is none
Pos(e) ==
    IF \E i \in 1..Len(events) : events[i] = e
    THEN CHOOSE i \in 1..Len(events) :
             events[i] = e /\ \A j \in 1..(i - 1) : events[j] # e
    ELSE 0

Happened(what) == Pos(Event(what)) > 0

LastEvent == events[Len(events)]

\* the copy ended with an error: an IO error of a stream, or the idle timeout
CopyFailed ==
    /\ tunnel_pc = "done"
    /\ LastEvent \in {Event("tunnel io error"), Event("tunnel io error: timed out")}

\* the HTTP responses written to the client of the connection
ResponsesSent == {i \in 1..Len(events) : events[i][1] = "response"}

(* C16: for an accepted CONNECT the 200 response is returned when the task *)
(* is spawned, before and whatever the upstream connect does; the task     *)
(* attempts the upstream connect only after the upgrade has succeeded,     *)
(* which is after the 200 was written; if the upgrade fails no upstream    *)
(* connect is attempted; and under any failure (upgrade, upstream connect, *)
(* IO error in the tunnel) the task terminates and no response other than  *)
(* the initial 200 is ever sent.                                           *)
C16_TunnelTaskOrder ==
    tunnel_pc # "none" =>
        /\ \/ /\ req # None
              /\ TheOutcomeOf(outcome).kind = "Return"
              /\ Unwrap(TheOutcomeOf(outcome).resp).status = 200
              /\ tunnel_pc \in {"upgrading", "done"}
              /\ ~Happened("upgraded")
           \/ /\ req = None
              /\ Pos(<<"response", 200>>) > 0
        /\ Cardinality(ResponsesSent) <= 1
        /\ tunnel_pc \in {"connecting", "copying"} => Happened("upgraded")
        /\ Happened("upgraded") =>
               /\ Pos(<<"response", 200>>) > 0
               /\ Pos(<<"response", 200>>) < Pos(Event("upgraded"))
        /\ \A e \in {"established", "tunnel establish error"} :
               Happened(e) => (Happened("upgraded") /\ Pos(Event("upgraded")) < Pos(Event(e)))
        /\ Happened("upgrade error") =>
               /\ tunnel_pc = "done"
               /\ ~Happened("upgraded")
               /\ ~Happened("established") /\ ~Happened("tunnel establish error")
               /\ copy = <<>>
        /\ \A e \in {"upgrade error", "tunnel establish error", "tunnel io error",
                      "tunnel io error: timed out"} :
               Happened(e) =>
                   /\ tunnel_pc = "done"
                   /\ \A i \in (Pos(Event(e)) + 1)..Len(events) :
                          events[i] = <<"response", 200>> /\ e = "upgrade error"

\* the upstream connect failed after the 200 and the upgrade: nothing more
\* is sent, the task is over
C16_Witness ==
    /\ tunnel_pc = "done"
    /\ events = <<Event("request"), <<"response", 200>>, Event("upgraded"),
                  Event("tunnel establish error")>>

\* a direction has read EOF from its source
AtEof(d) == tunnel_pc = "copying" /\ copy[d].read_done

\* the write half toward the destination of a direction is shut down, every
\* byte sent by its source delivered before
ShutDownAfterForwarding(d) ==
    /\ copy # <<>>
    /\ copy[d].done
    /\ copy[d].delivered = copy[d].sent

C18_AsStated ==
    tunnel_pc = "copying" => \A d \in Dirs : ~copy[d].done

(* C18, amended: the copy runs until both directions have reached EOF and  *)
(* shut down their destination, or until an IO error or the idle timeout   *)
(* ends it: after one direction is done the other keeps being copied, and  *)
(* the task ends without error exactly when the second direction is done.  *)
C18_CopyEndsWhenBothDone ==
    copy # <<>> =>
        /\ tunnel_pc \in {"copying", "done"}
        /\ (tunnel_pc = "done" /\ ~CopyFailed) <=> \A d \in Dirs : copy[d].done
        /\ (tunnel_pc = "done" /\ ~CopyFailed) => LastEvent = Event("tunnel closed")
        /\ \A d \in Dirs : copy[d].done => (copy[d].read_done /\ copy[d].buf = <<>>)

\* the client direction is done and the target's bytes are still in flight
C18_Witness ==
    /\ tunnel_pc = "copying"
    /\ copy["a_to_b"].done
    /\ ~copy["b_to_a"].read_done
    /\ copy["b_to_a"].buf # <<>>
    /\ Len(copy["b_to_a"].sent) = MaxBytes

(* C19, as stated: every established tunnel eventually terminates once     *)
(* traffic stops (the peers send a bounded number of bytes, so traffic     *)
(* always stops): the tunnel task exits.                                   *)
C19_AsStated == (tunnel_pc = "copying") ~> (tunnel_pc = "done")

\* s is a prefix of t
IsPrefix(s, t) == Len(s) <= Len(t) /\ SubSeq(t, 1, Len(s)) = s

(* C20: in every state of an established tunnel the bytes delivered to the *)
(* target are a prefix of the bytes the client sent and the bytes          *)
(* delivered to the client are a prefix of the bytes the target sent; when *)
(* both directions complete without error the delivered bytes are the sent *)
(* bytes.                                                                  *)
C20_BytesPreserved ==
    copy # <<>> =>
        /\ \A d \in Dirs :
               /\ IsPrefix(copy[d].delivered, copy[d].sent)
               /\ IsPrefix(copy[d].delivered \o copy[d].buf, copy[d].sent)
        /\ (tunnel_pc = "done" /\ LastEvent = Event("tunnel closed")) =>
               \A d \in Dirs : copy[d].delivered = copy[d].sent

\* both peers sent all their bytes and closed; the copy returned Ok
C20_Witness ==
    /\ tunnel_pc = "done"
    /\ LastEvent = Event("tunnel closed")
    /\ \A d \in Dirs : copy[d].delivered = Message(d)

-----------------------------------------------------------------------------
(* Vocabulary of the properties: tunnel tasks side by side *)

\* the user the AuthGate lets request r pass as
AuthenticatedAs(r) ==
    IF DOMAIN cfg.basic_auth = {} THEN "unknown"
    ELSE cfg.basic_auth[Unwrap(r.headers.proxy_authorization)]

\* the AccessLabel of the request that created task j
LabelOfCreator(j) ==
    [client   |-> to_canonical(tunnels[j].created_by.addr),
     target   |-> Unwrap(host_addr(tunnels[j].created_by.req.uri)),
     username |-> AuthenticatedAs(tunnels[j].created_by.req)]

\* peer e of tunnel j has received only bytes that the other peer of
\* tunnel j sent, in the order sent
OnlyOwnBytes(j, e) ==
    \A n \in 1..Len(wire[j][e]) :
        wire[j][e][n] = PoolByte(j, IF e = "b" THEN "a_to_b" ELSE "b_to_a", n)

\* task j ended for the given reason
EndedWith(j, why) == tunnels[j].pc = "done" /\ tunnels[j].log = why

\* in this step nothing of tunnel k changes
Untouched(k) == tunnels'[k] = tunnels[k] /\ wire'[k] = wire[k]

(* C21: tunnel tasks that run side by side are independent under every     *)
(* interleaving.  Each peer of a tunnel receives only the bytes the other  *)
(* peer of the same tunnel sent; the AccessLabel of a task is the          *)
(* canonical client address, the target and the user of the request that   *)
(* created it; no task is removed and a step that changes one tunnel (its  *)
(* EOF, IO error, upgrade failure, connect failure or idle timeout         *)
(* included) leaves every other tunnel and the call of handle in progress  *)
(* as they are; and whatever the other tasks do, handle can take the next  *)
(* request and a direction with a byte to forward can forward it.          *)
C21_TunnelsIndependent ==
    /\ [](/\ Len(wire) = Len(tunnels)
          /\ \A j \in DOMAIN tunnels :
                 /\ OnlyOwnBytes(j, "a") /\ OnlyOwnBytes(j, "b")
                 /\ IsSome(tunnels[j].access_label) =>
                        Unwrap(tunnels[j].access_label) = LabelOfCreator(j)
                 /\ \A d \in Dirs : can_forward(j, d) => ENABLED PoolForward(j, d)
          /\ req = None => ENABLED PoolHandleHttp
          /\ Len(tunnels) < MaxTunnels => ENABLED PoolConnect)
    /\ [][/\ Len(tunnels') >= Len(tunnels)
          /\ \A j \in DOMAIN tunnels :
                 ~Untouched(j) =>
                     /\ \A k \in DOMAIN tunnels \ {j} : Untouched(k)
                     /\ UNCHANGED handle_vars]_vars

\* two tunnels of different requests: the first ended with an IO error or
\* an idle timeout, the second then carried its bytes both ways and closed
C21_Witness ==
    /\ Len(tunnels) = 2
    /\ tunnels[1].created_by # tunnels[2].created_by
    /\ tunnels[1].log \in {"tunnel io error", "tunnel io error: timed out"}
    /\ EndedWith(2, "tunnel closed")
    /\ Unwrap(tunnels[2].access_label) # Unwrap(tunnels[1].access_label)
    /\ Len(wire[2].a) = PoolBytes /\ Len(wire[2].b) = PoolBytes
    /\ Len(wire[1].a) < PoolBytes

-----------------------------------------------------------------------------
(* Vocabulary of the properties: startup *)

\* the --allow-serving-network entries that are not CIDR notation
InvalidCidrs == {CidrLongPrefix, CidrShortAddress, CidrWord}

\* the --users entries that lack the colon, the user or the password
BadUserSpecs == {UserNoColon, UserNoName, UserNoPassword}

\* the header value and the user name of a well-formed --users entry
Credential(entry) ==
    CASE entry = UserAlice     -> [key |-> GoodAuth, username |-> "alice"]
      [] entry = UserTwoColons -> [key |-> CarolAuth, username |-> "carol"]
      [] entry = UserUnknown   -> [key |-> UnknownAuth, username |-> "unknown"]

\* the user names of the AccessLabels the latest call of handle made
LabelUsernames ==
    (IF IsSome(access_label) THEN {Unwrap(access_label).username} ELSE {})
    \union {spawned[i].username : i \in DOMAIN spawned}

(* C22, as stated: whenever some --allow-serving-network entry of the      *)
(* command line is not a valid CIDR, Config::try_from fails: no Config is  *)
(* produced and no request is handled.                                     *)
C22_AsStated ==
    (\E i \in DOMAIN param.allow_serving_network :
         param.allow_serving_network[i] \in InvalidCidrs)
        => (~loaded.ok /\ ~Handled)

(* C23, as stated: whenever some --users entry of the command line is not  *)
(* user:pass with a non-empty user and a non-empty pass, Config::try_from  *)
(* fails; and when it succeeds, for every well-formed entry the credential *)
(* table maps "Basic " + base64(user:pass) to the user name.               *)
C23_AsStated ==
    /\ (\E i \in DOMAIN param.users : param.users[i] \in BadUserSpecs)
           => ~loaded.ok
    /\ loaded.ok =>
           \A i \in DOMAIN param.users :
               param.users[i] \notin BadUserSpecs =>
                   /\ Credential(param.users[i]).key \in DOMAIN cfg.basic_auth
                   /\ cfg.basic_auth[Credential(param.users[i]).key]
                          = Credential(param.users[i]).username

(* C24, as stated: under every configuration that startup accepted and     *)
(* whose credential table is non-empty, no AccessLabel of a tunnel or of a *)
(* simple-proxy request carries the user name "unknown".                   *)
C24_AsStated ==
    (loaded.ok /\ Handled /\ DOMAIN cfg.basic_auth # {})
        => "unknown" \notin LabelUsernames

(* C26, as stated: a restriction that was configured is never widened to   *)
(* allow-all.  With at least one --users entry the credential table of the *)
(* running configuration is non-empty, and a tunnel is spawned or a        *)
(* request forwarded only for a request with credentials of the table;     *)
(* with at least one --allow-serving-network entry and prohibit_serving    *)
(* false, allowed_networks is non-empty, and the static-file responder is  *)
(* invoked only for a client inside one of the networks.                   *)
C26_AsStated ==
    loaded.ok =>
        /\ param.users # <<>> =>
               /\ DOMAIN cfg.basic_auth # {}
               /\ (Handled /\ (spawned # <<>> \/ calls.upstream > 0))
                      => HasValidCredentials
        /\ (param.allow_serving_network # <<>> /\ ~param.prohibit_serving) =>
               /\ cfg.serving_control.allowed_networks # <<>>
               /\ (Handled /\ calls.serve > 0) => ClientInAllowedNetworks

(* C25: every request handle passes to simple_proxy is neither a CONNECT   *)
(* nor HTTP/2 and has a host in its URI; a request that is HTTP/2 and not  *)
(* a CONNECT never reaches the AuthGate and is never forwarded by          *)
(* simple_proxy; and for every request simple_proxy gets, the rewriter     *)
(* succeeds (its host-is-absent error does not occur) and the rewritten    *)
(* request is sent upstream.                                               *)
C25_SimpleProxyInputs ==
    Handled =>
        /\ calls.simple > 0 =>
               /\ TheReq.method # "CONNECT"
               /\ TheReq.version # "HTTP/2"
               /\ IsSome(TheReq.uri.host)
               /\ mod_http1_proxy_req(TheReq).ok
               /\ sent = Some(mod_http1_proxy_req(TheReq).val)
        /\ (TheReq.version = "HTTP/2" /\ TheReq.method # "CONNECT") =>
               /\ calls.auth = 0
               /\ calls.simple = 0
               /\ calls.upstream = 0
               /\ sent = None

\* an HTTP/1.1 GET with an absolute URI was rewritten and sent upstream
C25_Witness ==
    /\ Handled
    /\ calls.simple = 1
    /\ TheReq.version = "HTTP/1.1"
    /\ IsSome(TheReq.uri.host)
    /\ IsSome(sent)
    /\ Unwrap(sent).uri.host = None

=============================================================================
